---- MODULE Spec2Model ----
(***************************************************************************)
(* State-machine model of the squidsoup visualizer core:                   *)
(*   - the timeline store and pattern registry (stores/timelineStore.ts,   *)
(*     stores/patternStore.ts) with the useTimelinePlayback scheduler,     *)
(*   - the AudioAnalyzer beat / BPM logic (services/audioAnalyzer.ts),     *)
(*   - the stateful generators pulse, firework and tetris.                 *)
(*                                                                         *)
(* Units.  Timeline times are whole seconds.  performance.now() and the    *)
(* render clock are whole milliseconds.  Audio band values (bass,          *)
(* amplitude) are tenths, 0..10 standing for 0.0..1.0.  An instantaneous   *)
(* BPM 60000/interval is kept as the exact fraction <<60000, interval>>.   *)
(***************************************************************************)
EXTENDS Integers, Sequences, FiniteSets, TLC

VARIABLES
  \* ---- timeline store (stores/timelineStore.ts)
  clips,            \* TimelineClip[] in insertion order
  isTimelineMode,   \* boolean
  selectedClipId,   \* clip id or 0 (null)
  \* ---- pattern registry (stores/patternStore.ts)
  patterns,         \* PatternConfig[] in insertion order
  activePatternId,  \* pattern id or 0 (null)
  \* ---- audio store (stores/audioStore.ts)
  currentTime,      \* playback position, seconds
  \* ---- AudioAnalyzer singleton (services/audioAnalyzer.ts)
  analyserNode,     \* TRUE once initialize() has set the audio context and
                    \* the analyser node, FALSE once destroy() has nulled them
  leakedContext,    \* some AudioContext an earlier initialize() created is
                    \* still open and no longer referenced
  frequencyData,    \* contents of the frequencyData array, one level per
                    \* band <<bass, mid, treble>>, tenths
  now,              \* performance.now(), ms
  lastBeatTime,     \* ms
  previousAmplitude,\* last combined energy, hundredths
  bpmHistory,       \* number[] of instantaneous BPMs (exact fractions)
  lastAnalysis,     \* the AudioAnalysis the latest analyze() returned
  beatLog,          \* history: timestamps of the latest calls that returned
                    \* beat = true (the newest MaxLog of them)
  recorded,         \* history: number of entries recordBeat() has pushed
                    \* since the history was last empty
  held,             \* an AudioAnalysis a reader took earlier and still holds
  published,        \* history: the frequencyData contents of `held` when
                    \* analyze() returned it
  \* ---- stateful generators (module-level state of the pattern functions)
  renderTime,       \* render clock at the latest generator call, ms
  call,             \* history: arguments of the latest evaluatePatterns frame
  spawned,          \* history: entities each generator has pushed so far; the
                    \* n-th entity of a generator carries id n
  pulseTimes,       \* pulse.ts: pulse shells, oldest first
  pulseLastBeatTime,    \* pulse.ts lastBeatTime, ms
  pulseLastAutoTime,    \* pulse.ts lastAutoTime, ms
  particles,        \* firework.ts: Particle[], oldest first
  fireworkLastBeatTime, \* firework.ts lastBeatTime, ms
  fireworkLastAutoTime, \* firework.ts lastAutoTime, ms
  tetrisBlocks,     \* extras.ts: TetrisBlock[], oldest first
  lastTetrisBeat,   \* ms
  lastTetrisAuto,   \* ms
  tetrisStackHeight,\* 1e-4 scene units
  \* ---- evaluatePatterns and the wave functions (patterns/generators)
  generated,        \* history: what the pattern functions returned to
                    \* the latest evaluatePatterns call, in list order
  resultCache,      \* evaluatePatterns: the reusable result object
  linearResult,     \* wave.ts: the reusable result object of linearWave
  \* ---- audio store and the App audio setup effect (stores/audioStore.ts, App.tsx)
  audioUrl,         \* object URL of the audio file: n for the n-th URL
                    \* created, 0 for null
  liveUrls,         \* object URLs created and not revoked
  urlsCreated,      \* number of object URLs created so far
  peakUrls,         \* history: most object URLs alive at once so far
  setupPending,     \* the audio setup effect of App is due to run for the
                    \* current audioUrl
  \* ---- PatternInput (components/ControlPanel/PatternInput.tsx)
  isGenerating,     \* patternStore.isGenerating
  error,            \* the message PatternInput shows, "" for none
  awaiting,         \* handleGenerate is suspended on generatePatternFromDescription
  lastResponse,     \* history: the kind of response the latest request got
  \* ---- LightGrid (MiniViewer.tsx) and patternStore.gridConfig
  gridConfig,       \* patternStore.gridConfig
  positions,        \* the memoised point list, hundredths of a scene unit
  randomSeed,       \* seed left in the closure of the last generator
  generations,      \* history: each generation's config and point list
  \* ---- the dispatch of evaluatePatterns (patterns/generators/index.ts)
  lastTypes,        \* history: the types of the patterns of the latest call
  dispatched,       \* history: the functions that call invoked, in order
  outcome,          \* history: how it ended, "ok", "NaN" or "TypeError"
  \* ---- LightGrid smoothing buffers and frame callback (MiniViewer.tsx)
  prevIntensities,  \* prevIntensities.current, 1e-6; <<>> while the ref is null
  prevColors,       \* prevColors.current, 1e-5
  allocatedFor,     \* the generation the buffers were allocated for, 0 for none
  frameCount,       \* frameCount.current
  lastFrame,        \* history: what the latest frame callback did
  \* ---- the analysis loops and the audio store's snapshot (App.tsx, stores/audioStore.ts)
  analyzeLoops,     \* analyzeLoop callbacks rescheduling themselves every frame
  audioPaused,      \* audio.paused of TimelineEditor's audio element
  isPlaying,        \* audioStore.isPlaying
  storeAnalysis,    \* audioStore.analysis: bass, amplitude, beat, timestamp
  frameCalls,       \* history: analyze() calls made in the latest animation frame
  beatLost,         \* history: that frame stored a beat and then overwrote it
  publishedAt       \* history: the render clock when analysis was last stored

tlVars == <<clips, isTimelineMode, selectedClipId, patterns, activePatternId,
            currentTime>>
anVars == <<analyserNode, leakedContext, frequencyData, now, lastBeatTime,
            previousAmplitude, bpmHistory, lastAnalysis, beatLog, recorded,
            held, published>>

pulseVars == <<pulseTimes, pulseLastBeatTime, pulseLastAutoTime>>
fireworkVars == <<particles, fireworkLastBeatTime, fireworkLastAutoTime>>
tetrisVars == <<tetrisBlocks, lastTetrisBeat, lastTetrisAuto, tetrisStackHeight>>
genVars == <<renderTime, call, spawned, pulseVars, fireworkVars, tetrisVars>>

evalVars == <<generated, resultCache, linearResult>>
audioVars == <<audioUrl, liveUrls, urlsCreated, peakUrls, setupPending>>
inputVars == <<isGenerating, error, awaiting, lastResponse>>
gridVars == <<gridConfig, positions, randomSeed, generations>>
dispatchVars == <<lastTypes, dispatched, outcome>>
frameVars == <<prevIntensities, prevColors, allocatedFor, frameCount, lastFrame>>
loopVars == <<analyzeLoops, audioPaused, isPlaying, storeAnalysis, frameCalls,
              beatLost, publishedAt>>

\* What the operations of one component leave alone.
notTlVars == <<anVars, genVars, evalVars, audioVars, inputVars, gridVars,
               dispatchVars, frameVars, loopVars>>
notAnVars == <<tlVars, genVars, evalVars, audioVars, inputVars, gridVars,
               dispatchVars, frameVars, loopVars>>
notGenVars == <<tlVars, anVars, evalVars, audioVars, inputVars, gridVars,
                dispatchVars, frameVars, loopVars>>
notEvalVars == <<tlVars, anVars, genVars, audioVars, inputVars, gridVars,
                 dispatchVars, frameVars, loopVars>>
notAudioVars == <<tlVars, anVars, genVars, evalVars, inputVars, gridVars,
                  dispatchVars, frameVars, loopVars>>
notInputVars == <<tlVars, anVars, genVars, evalVars, audioVars, gridVars,
                  dispatchVars, frameVars, loopVars>>
notGridVars == <<tlVars, anVars, genVars, evalVars, audioVars, inputVars,
                 dispatchVars, frameVars, loopVars>>
notDispatchVars == <<tlVars, anVars, genVars, evalVars, audioVars, inputVars,
                     gridVars, frameVars, loopVars>>
notFrameVars == <<tlVars, anVars, genVars, evalVars, audioVars, inputVars,
                  gridVars, dispatchVars, loopVars>>
notLoopVars == <<tlVars, anVars, genVars, evalVars, audioVars, inputVars,
                 gridVars, dispatchVars, frameVars>>

vars == <<tlVars, anVars, genVars, evalVars, audioVars, inputVars, gridVars,
          dispatchVars, frameVars, loopVars>>

----------------------------------------------------------------------------
\* Bounds of the timeline model.
MaxClips == 2
MaxPatterns == 2
MaxStartTime == 11

\* Program constants of the timeline store.
DefaultClipDuration == 10
MinClipDuration == 1

\* Id spaces.  generateId() returns a fresh random string; a clip takes the
\* least clip number not in use, its patternConfig gets CfgIdBase + that
\* number, a registry pattern gets RegIdBase + the least free number.
CfgIdBase == 100
RegIdBase == 200

Max(a, b) == IF a >= b THEN a ELSE b
Min(a, b) == IF a <= b THEN a ELSE b

----------------------------------------------------------------------------
\* getDefaultPatternConfig: enabled and audioReactive start true.
getDefaultPatternConfig(type, cfgId) ==
  [id |-> cfgId, type |-> type, enabled |-> TRUE, audioReactive |-> TRUE]

\* Math.max(0, x) as used by addClip / moveClip / resizeClip.
ClampStart(x) == Max(0, x)

ClampTrack(x) == Max(0, x)

ClampDuration(d) == Max(MinClipDuration, d)

\* The filter predicate of getActiveClips.
ClipCoversClosedEnd(clip, t) ==
  t >= clip.startTime /\ t <= clip.startTime + clip.duration
ClipCovers(clip, t) ==
  LET endTime == clip.startTime + clip.duration
  IN  t >= clip.startTime /\ t < endTime

\* getActiveClips(currentTime) under an explicit store state.
getActiveClipsIn(mode, cs, t) ==
  IF ~mode THEN <<>>
  ELSE SelectSeq(cs, LAMBDA c : ClipCovers(c, t))

getActiveClips(t) == getActiveClipsIn(isTimelineMode, clips, t)

\* Array.map over a sequence.
MapSeq(s, F(_)) == [i \in 1..Len(s) |-> F(s[i])]

ForceEnabledBroken(cfg) == cfg
ForceEnabled(cfg) == [cfg EXCEPT !.enabled = TRUE]

AlwaysOnBroken(ps) == ps
AlwaysOn(ps) == SelectSeq(ps, LAMBDA p : p.enabled)

\* useTimelinePlayback under an explicit store state.
PlaybackIn(mode, cs, ps, t) ==
  LET alwaysOnPatterns == AlwaysOn(ps)
  IN  IF ~mode THEN alwaysOnPatterns
      ELSE MapSeq(getActiveClipsIn(mode, cs, t),
                  LAMBDA c : ForceEnabled(c.patternConfig))

useTimelinePlayback == PlaybackIn(isTimelineMode, clips, patterns, currentTime)

----------------------------------------------------------------------------
TLInit ==
  /\ clips = <<>>
  /\ isTimelineMode = FALSE
  /\ selectedClipId = 0
  /\ patterns = <<>>
  /\ activePatternId = 0
  /\ currentTime = 0

ClipIds == {clips[i].id : i \in 1..Len(clips)}

FreshNumber(used) == CHOOSE n \in 1..(Cardinality(used) + 1) : n \notin used

\* addClip(patternType, startTime, track)
AddClip(type, startTime, track) ==
  /\ Len(clips) < MaxClips
  /\ LET id == FreshNumber(ClipIds)
         clip == [id |-> id,
                  patternType |-> type,
                  patternConfig |-> getDefaultPatternConfig(type, CfgIdBase + id),
                  startTime |-> ClampStart(startTime),
                  duration |-> DefaultClipDuration,
                  track |-> ClampTrack(track)]
     IN  /\ clips' = Append(clips, clip)
         /\ selectedClipId' = id
  /\ UNCHANGED <<notTlVars, isTimelineMode, patterns, activePatternId, currentTime>>

\* removeClip(id)
RemoveClip(id) ==
  /\ clips' = SelectSeq(clips, LAMBDA c : c.id # id)
  /\ selectedClipId' = IF selectedClipId = id THEN 0 ELSE selectedClipId
  /\ UNCHANGED <<notTlVars, isTimelineMode, patterns, activePatternId, currentTime>>

\* { ...c, ...updates }: the fields named by updates replace those of c.
Merge(c, updates) ==
  [f \in DOMAIN c |-> IF f \in DOMAIN updates THEN updates[f] ELSE c[f]]

\* Partial<TimelineClip> values a caller may pass to updateClip for clip c.
UpdateInputs(c) ==
  { [startTime |-> -1],
    [duration |-> 0],
    [track |-> -1],
    [patternConfig |-> [c.patternConfig EXCEPT !.enabled = FALSE]] }

\* updateClip(id, updates): no clamping of the merged fields.
UpdateClip(id, updates) ==
  /\ clips' = MapSeq(clips, LAMBDA c : IF c.id = id THEN Merge(c, updates) ELSE c)
  /\ UNCHANGED <<notTlVars, isTimelineMode, selectedClipId, patterns, activePatternId,
                 currentTime>>

\* updateClipAudioReactive(id, audioReactive)
UpdateClipAudioReactive(id, audioReactive) ==
  /\ clips' = MapSeq(clips, LAMBDA c :
                 IF c.id = id
                 THEN [c EXCEPT !.patternConfig.audioReactive = audioReactive]
                 ELSE c)
  /\ UNCHANGED <<notTlVars, isTimelineMode, selectedClipId, patterns, activePatternId,
                 currentTime>>

\* moveClip(id, newStartTime, newTrack)
MoveClip(id, newStartTime, newTrack) ==
  /\ clips' = MapSeq(clips, LAMBDA c :
                 IF c.id = id
                 THEN [c EXCEPT !.startTime = ClampStart(newStartTime),
                                !.track = ClampTrack(newTrack)]
                 ELSE c)
  /\ UNCHANGED <<notTlVars, isTimelineMode, selectedClipId, patterns, activePatternId,
                 currentTime>>

\* The clip resizeClip(id, newDuration, fromLeft) produces from clip c.
Resized(c, newDuration, fromLeft) ==
  LET clampedDuration == ClampDuration(newDuration)
      deltaTime == c.duration - clampedDuration
  IN  IF fromLeft
      THEN [c EXCEPT !.startTime = ClampStart(c.startTime + deltaTime),
                     !.duration = clampedDuration]
      ELSE [c EXCEPT !.duration = clampedDuration]

\* resizeClip(id, newDuration, fromLeft = false)
ResizeClip(id, newDuration, fromLeft) ==
  /\ \A i \in 1..Len(clips) :
       clips[i].id = id =>
         Resized(clips[i], newDuration, fromLeft).startTime <= MaxStartTime
  /\ clips' = MapSeq(clips, LAMBDA c :
                 IF c.id # id THEN c ELSE Resized(c, newDuration, fromLeft))
  /\ UNCHANGED <<notTlVars, isTimelineMode, selectedClipId, patterns, activePatternId,
                 currentTime>>

\* selectClip(id)
SelectClip(id) ==
  /\ selectedClipId' = id
  /\ UNCHANGED <<notTlVars, clips, isTimelineMode, patterns, activePatternId, currentTime>>

\* setTimelineMode(enabled)
SetTimelineModeBroken(enabled) ==
  /\ isTimelineMode' = enabled
  /\ clips' = <<>>
  /\ selectedClipId' = 0
  /\ UNCHANGED <<notTlVars, patterns, activePatternId, currentTime>>
SetTimelineMode(enabled) ==
  /\ isTimelineMode' = enabled
  /\ UNCHANGED <<notTlVars, clips, selectedClipId, patterns, activePatternId, currentTime>>

\* clearTimeline()
ClearTimeline ==
  /\ clips' = <<>>
  /\ selectedClipId' = 0
  /\ UNCHANGED <<notTlVars, isTimelineMode, patterns, activePatternId, currentTime>>

\* audioStore.setCurrentTime(time)
SetCurrentTime(t) ==
  /\ currentTime' = t
  /\ UNCHANGED <<notTlVars, clips, isTimelineMode, selectedClipId, patterns,
                 activePatternId>>

PatternIds == {patterns[i].id : i \in 1..Len(patterns)}

\* patternStore.addPatternFromGeneration(type, ...) -> addPattern(pattern);
\* DEFAULT_PATTERN_CONFIG has enabled = true, audioReactive = true.
AddPatternFromGeneration(type) ==
  /\ Len(patterns) < MaxPatterns
  /\ LET id == RegIdBase + FreshNumber({q - RegIdBase : q \in PatternIds})
     IN  /\ patterns' = Append(patterns, getDefaultPatternConfig(type, id))
         /\ activePatternId' = id
  /\ UNCHANGED <<notTlVars, clips, isTimelineMode, selectedClipId, currentTime>>

\* patternStore.togglePattern(id)
TogglePattern(id) ==
  /\ patterns' = MapSeq(patterns, LAMBDA p :
                    IF p.id = id THEN [p EXCEPT !.enabled = ~p.enabled] ELSE p)
  /\ UNCHANGED <<notTlVars, clips, isTimelineMode, selectedClipId, activePatternId,
                 currentTime>>

----------------------------------------------------------------------------
\* Inputs of the scheduling specification (seconds / track indices / types).
SchedStartInputs == {-1, 2}
SchedCurrentTimes == {2, 11}
ClipTypes == {"pulse"}
RegistryTypes == {"wave"}

\* An updateClip argument that disables the clip's stored patternConfig.
DisableUpdate(c) == [patternConfig |-> [c.patternConfig EXCEPT !.enabled = FALSE]]

\* Scheduling: clips are placed, moved, resized and disabled, the registry
\* is filled and toggled, the mode is switched and playback time moves.
TLNext ==
  \/ \E ty \in ClipTypes, s \in SchedStartInputs : AddClip(ty, s, -1)
  \/ \E i \in 1..Len(clips) : UpdateClip(clips[i].id, DisableUpdate(clips[i]))
  \/ \E id \in ClipIds : MoveClip(id, -1, 1)
  \/ \E id \in ClipIds, l \in BOOLEAN : ResizeClip(id, 0, l)
  \/ \E b \in BOOLEAN : SetTimelineMode(b)
  \/ ClearTimeline
  \/ \E t \in SchedCurrentTimes : SetCurrentTime(t)
  \/ \E ty \in RegistryTypes : AddPatternFromGeneration(ty)
  \/ \E id \in PatternIds : TogglePattern(id)

\* Inputs of the clip-editing specification.
EditStartInputs == {-1, 2}
EditTrackInputs == {-1, 1}
EditDurationInputs == {0}

\* Clip editing: every timeline store operation that creates or changes a
\* clip, with in-range and out-of-range arguments.
ClipOpsNext ==
  \/ \E ty \in ClipTypes, s \in EditStartInputs, tr \in EditTrackInputs :
       AddClip(ty, s, tr)
  \/ \E id \in ClipIds : RemoveClip(id)
  \/ \E i \in 1..Len(clips) : \E u \in UpdateInputs(clips[i]) :
       UpdateClip(clips[i].id, u)
  \/ \E id \in ClipIds, b \in BOOLEAN : UpdateClipAudioReactive(id, b)
  \/ \E id \in ClipIds, s \in EditStartInputs, tr \in EditTrackInputs :
       MoveClip(id, s, tr)
  \/ \E id \in ClipIds, d \in EditDurationInputs, l \in BOOLEAN :
       ResizeClip(id, d, l)
  \/ \E id \in ClipIds \cup {0} : SelectClip(id)
  \/ ClearTimeline

----------------------------------------------------------------------------
\* Claims about the timeline scheduler.

Range(s) == {s[i] : i \in 1..Len(s)}

\* Times at which getActiveClips is probed: from below the smallest start to
\* past the largest end a clip can have.
ProbeTimes == -2 .. (MaxStartTime + DefaultClipDuration + 2)

\* C1: in timeline mode getActiveClips(t) holds a clip exactly when
\* startTime <= t < startTime + duration; a clip (of positive length) is
\* active at startTime and one tick below its end, inactive one tick below
\* startTime and at exactly startTime + duration.
C1_HalfOpenInterval ==
  isTimelineMode =>
    \A i \in 1..Len(clips) :
      LET c == clips[i]
          s == c.startTime
          e == c.startTime + c.duration
      IN  /\ \A t \in ProbeTimes :
                (c \in Range(getActiveClips(t))) <=> (s <= t /\ t < e)
          /\ c.duration >= 1 =>
                /\ c \in Range(getActiveClips(s))
                /\ c \in Range(getActiveClips(e - 1))
                /\ c \notin Range(getActiveClips(s - 1))
                /\ c \notin Range(getActiveClips(e))

\* A clip [2, 12) probed at its last active tick 11 and at its end 12, next
\* to a clip [0, 10) that has ended.
C1_Witness ==
  /\ isTimelineMode
  /\ Len(clips) = 2
  /\ currentTime = 11
  /\ \E i \in 1..2 : clips[i].startTime = 2 /\ clips[i].duration = 10
  /\ Len(getActiveClips(currentTime)) = 1
  /\ Len(getActiveClips(currentTime + 1)) = 0

\* Indices of the clips whose interval contains the playback time.
CoveringClips ==
  {i \in 1..Len(clips) :
     clips[i].startTime <= currentTime
     /\ currentTime < clips[i].startTime + clips[i].duration}

\* C2: in timeline mode the active pattern list is exactly the patternConfig
\* of every clip whose interval contains currentTime, whatever the track or
\* overlap, each with enabled = true whatever is stored, and no registry
\* pattern is in it.
C2_TimelineActiveSet ==
  isTimelineMode =>
    LET act == useTimelinePlayback
    IN  /\ Len(act) = Cardinality(CoveringClips)
        /\ \A i \in CoveringClips :
              \E j \in 1..Len(act) :
                /\ act[j].id = clips[i].patternConfig.id
                /\ act[j].type = clips[i].patternConfig.type
                /\ act[j].audioReactive = clips[i].patternConfig.audioReactive
        /\ \A j \in 1..Len(act) :
              /\ act[j].enabled
              /\ act[j].id \notin PatternIds
              /\ \E i \in CoveringClips : act[j].id = clips[i].patternConfig.id

\* Two overlapping clips on different tracks, one stored disabled, both
\* active, while the registry holds an enabled pattern.
C2_Witness ==
  /\ isTimelineMode
  /\ Len(clips) = 2
  /\ CoveringClips = {1, 2}
  /\ clips[1].track # clips[2].track
  /\ ~clips[1].patternConfig.enabled
  /\ clips[2].patternConfig.enabled
  /\ \E k \in 1..Len(patterns) : patterns[k].enabled
  /\ Len(useTimelinePlayback) = 2

\* Indices of the enabled registry patterns.
EnabledIdx == {i \in 1..Len(patterns) : patterns[i].enabled}

\* C3: in always-on mode the active pattern list is exactly the enabled
\* registry patterns in registry order, whatever currentTime and the clips.
C3_AlwaysOnActiveSet ==
  ~isTimelineMode =>
    LET act == useTimelinePlayback
    IN  /\ Len(act) = Cardinality(EnabledIdx)
        /\ \A i \in EnabledIdx :
              act[Cardinality({k \in EnabledIdx : k <= i})] = patterns[i]

\* Always-on mode with a disabled pattern ahead of an enabled one, while a
\* clip covers the playback time.
C3_Witness ==
  /\ ~isTimelineMode
  /\ Len(patterns) = 2
  /\ ~patterns[1].enabled
  /\ patterns[2].enabled
  /\ CoveringClips # {}
  /\ currentTime = 11
  /\ useTimelinePlayback = <<patterns[2]>>

\* C4: a step that changes isTimelineMode changes nothing else of the two
\* stores, so the active pattern list of either mode at the same currentTime
\* is the same before and after the switch.
C4_ModeSwitchLossless ==
  [][isTimelineMode' # isTimelineMode =>
       /\ clips' = clips
       /\ selectedClipId' = selectedClipId
       /\ patterns' = patterns
       /\ activePatternId' = activePatternId
       /\ currentTime' = currentTime
       /\ \A m \in BOOLEAN :
            PlaybackIn(m, clips', patterns', currentTime')
              = PlaybackIn(m, clips, patterns, currentTime)]_vars

\* Timeline mode entered with clips, a selection and registry patterns in
\* the stores, and a non-empty active list to lose.
C4_Witness ==
  /\ isTimelineMode
  /\ Len(clips) = 2
  /\ selectedClipId # 0
  /\ Len(patterns) = 2
  /\ useTimelinePlayback # <<>>
  /\ PlaybackIn(FALSE, clips, patterns, currentTime) # <<>>

\* C5: every clip in the store has startTime >= 0, duration >= 1 second and
\* track >= 0.
C5_ClipFieldsInRange ==
  \A i \in 1..Len(clips) :
    /\ clips[i].startTime >= 0
    /\ clips[i].duration >= MinClipDuration
    /\ clips[i].track >= 0

----------------------------------------------------------------------------
\* AudioAnalyzer (services/audioAnalyzer.ts).

\* Program constants of the analyzer.
BeatThreshold == 65
BeatHoldTime == 150
BpmHistoryCap == 12
BpmMinSamples == 4
BpmLow == 60
BpmHigh == 180
MsPerMinute == 60000

\* Bound of the beat log kept for the claims.
MaxLog == 7

\* Exact fractions <<numerator, denominator>> with positive denominator.
FracLE(x, y) == x[1] * y[2] <= y[1] * x[2]
FracLT(x, y) == x[1] * y[2] < y[1] * x[2]
FracMean(x, y) == <<x[1] * y[2] + y[1] * x[2], 2 * x[2] * y[2]>>
\* Math.round of a non-negative fraction: floor(q + 1/2).
RoundFrac(q) == (2 * q[1] + q[2]) \div (2 * q[2])

\* The frequencyData field of an AudioAnalysis refers to an array: either
\* the analyzer's own frequencyData array (shared, its contents read through
\* the analyzer's field) or another array with the contents given.
EmptyArray == [shared |-> FALSE, bins |-> <<>>]
SharedArray == [shared |-> TRUE, bins |-> <<>>]

\* getEmptyAnalysis()
getEmptyAnalysisBroken ==
  [bass |-> 0, mid |-> 0, treble |-> 0, amplitude |-> 0, beat |-> FALSE,
   bpm |-> 0, frequencyData |-> EmptyArray, timestamp |-> now]
getEmptyAnalysis ==
  [bass |-> 0, mid |-> 0, treble |-> 0, amplitude |-> 0, beat |-> FALSE,
   bpm |-> 0, frequencyData |-> EmptyArray, timestamp |-> 0]

\* What a reader of snapshot.frequencyData sees.
Deref(snapshot) ==
  IF snapshot.frequencyData.shared THEN frequencyData
  ELSE snapshot.frequencyData.bins

\* A snapshot once the analyzer's field points to a new array: the array it
\* refers to keeps what was last written to it.
Detach(snapshot) ==
  IF snapshot.frequencyData.shared
  THEN [snapshot EXCEPT !.frequencyData =
                          [shared |-> FALSE, bins |-> frequencyData]]
  ELSE snapshot

AnInit ==
  /\ analyserNode = FALSE
  /\ now = 0
  /\ lastBeatTime = 0
  /\ previousAmplitude = 0
  /\ bpmHistory = <<>>
  /\ lastAnalysis = getEmptyAnalysis
  /\ beatLog = <<>>
  /\ recorded = 0
  /\ leakedContext = FALSE
  /\ frequencyData = <<>>
  /\ held = getEmptyAnalysis
  /\ published = <<>>

\* recordBeat(time): the bpmHistory it leaves, given the fields it reads.
KeepNewestBroken(h) == IF Len(h) > BpmHistoryCap THEN SubSeq(h, 1, BpmHistoryCap) ELSE h
KeepNewest(h) == IF Len(h) > BpmHistoryCap THEN Tail(h) ELSE h

recordBeat(time, last, history) ==
  IF last > 0
  THEN LET interval == time - last
           instantBPM == <<MsPerMinute, interval>>
       IN  IF FracLE(<<BpmLow, 1>>, instantBPM) /\ FracLE(instantBPM, <<BpmHigh, 1>>)
           THEN KeepNewest(Append(history, instantBPM))
           ELSE history
  ELSE history

\* The early return of detectBeat.
InCooldownBroken(t, last) == FALSE
InCooldown(t, last) == t - last < BeatHoldTime

\* combined = bass * 0.7 + amplitude * 0.3, in hundredths.
Combined(bass, amplitude) == bass * 7 + amplitude * 3

\* detectBeat(bass, amplitude) at performance.now() = t on an analyzer whose
\* fields are those of s: the value returned and the fields it leaves.
detectBeatOn(s, t, bass, amplitude) ==
  IF InCooldown(t, s.lastBeatTime)
  THEN [beat |-> FALSE, lastBeatTime |-> s.lastBeatTime,
        previousAmplitude |-> s.previousAmplitude,
        bpmHistory |-> s.bpmHistory]
  ELSE LET combined == Combined(bass, amplitude)
           previous == s.previousAmplitude
           isBeat == /\ combined > BeatThreshold
                     /\ 10 * combined > 11 * previous
                     /\ bass > 4
       IN  [beat |-> isBeat,
            lastBeatTime |-> IF isBeat THEN t ELSE s.lastBeatTime,
            previousAmplitude |-> combined,
            bpmHistory |-> IF isBeat
                           THEN recordBeat(t, s.lastBeatTime, s.bpmHistory)
                           ELSE s.bpmHistory]

\* detectBeat on the analyzer as it is.
detectBeat(t, bass, amplitude) ==
  detectBeatOn([lastBeatTime |-> lastBeatTime,
                previousAmplitude |-> previousAmplitude,
                bpmHistory |-> bpmHistory], t, bass, amplitude)

\* [...history].sort((a, b) => a - b)
RECURSIVE InsertSorted(_, _)
InsertSorted(x, s) ==
  IF s = <<>> THEN <<x>>
  ELSE IF FracLE(x, Head(s)) THEN <<x>> \o s
  ELSE <<Head(s)>> \o InsertSorted(x, Tail(s))

RECURSIVE SortFracs(_)
SortFracs(s) == IF s = <<>> THEN <<>> ELSE InsertSorted(Head(s), SortFracs(Tail(s)))

\* calculateBPM() over a history.
calculateBPMBroken(history) ==
  IF Len(history) < BpmMinSamples THEN 0
  ELSE LET sorted == SortFracs(history)
       IN  RoundFrac(sorted[Len(sorted)])
calculateBPM(history) ==
  IF Len(history) < BpmMinSamples THEN 0
  ELSE LET sorted == SortFracs(history)
           mid == Len(sorted) \div 2
           median == IF Len(sorted) % 2 = 0
                     THEN FracMean(sorted[mid], sorted[mid + 1])
                     ELSE sorted[mid + 1]
       IN  RoundFrac(median)

\* The newest MaxLog entries of the beat log after a beat at t.
Logged(log, t) ==
  LET l == Append(log, t)
  IN  IF Len(l) > MaxLog THEN Tail(l) ELSE l

\* initialize(audioElement): a new context, analyser node and source, and
\* new data arrays; a context already there is neither closed nor kept, and
\* the beat and BPM fields are not touched.
initialize ==
  /\ analyserNode' = TRUE
  /\ leakedContext' = (leakedContext \/ analyserNode)
  /\ frequencyData' = <<0, 0, 0>>
  /\ lastAnalysis' = Detach(lastAnalysis)
  /\ held' = Detach(held)
  /\ UNCHANGED <<now, lastBeatTime, previousAmplitude, bpmHistory, beatLog,
                 recorded, published>>

Initialize == initialize /\ UNCHANGED notAnVars

\* destroy(): nodes disconnected, the context closed, history cleared.
Destroy ==
  /\ analyserNode' = FALSE
  /\ bpmHistory' = <<>>
  /\ recorded' = 0
  /\ UNCHANGED <<notAnVars, leakedContext, frequencyData, now, lastBeatTime,
                 previousAmplitude, lastAnalysis, beatLog, held, published>>

\* analyze(), called dt ms after the previous call, with the band values the
\* analyser node yields: what it does to the analyzer.
analyze(dt, bass, mid, treble, amplitude) ==
  /\ now' = now + dt
  /\ IF ~analyserNode
     THEN /\ lastAnalysis' = getEmptyAnalysis
          /\ UNCHANGED <<lastBeatTime, previousAmplitude, bpmHistory,
                         frequencyData>>
     ELSE LET r == detectBeat(now', bass, amplitude)
          IN  /\ frequencyData' = <<bass, mid, treble>>
              /\ lastBeatTime' = r.lastBeatTime
              /\ previousAmplitude' = r.previousAmplitude
              /\ bpmHistory' = r.bpmHistory
              /\ lastAnalysis' = [bass |-> bass, mid |-> mid,
                                  treble |-> treble, amplitude |-> amplitude,
                                  beat |-> r.beat,
                                  bpm |-> calculateBPM(r.bpmHistory),
                                  frequencyData |-> SharedArray,
                                  timestamp |-> now']
  /\ recorded' = IF /\ lastAnalysis'.beat
                    /\ recordBeat(now', lastBeatTime, <<>>) # <<>>
                 THEN recorded + 1 ELSE recorded
  /\ UNCHANGED <<analyserNode, leakedContext, held, published>>

AnalyzeBands(dt, bass, mid, treble, amplitude) ==
  analyze(dt, bass, mid, treble, amplitude) /\ UNCHANGED notAnVars

\* analyze() with the upper bands silent.
Analyze(dt, bass, amplitude) == AnalyzeBands(dt, bass, 0, 0, amplitude)

\* A reader (a store subscriber, a frame callback) keeps the snapshot
\* analyze() returned last.
Hold ==
  /\ held' = lastAnalysis
  /\ published' = Deref(lastAnalysis)
  /\ UNCHANGED <<notAnVars, analyserNode, leakedContext, frequencyData, now,
                 lastBeatTime, previousAmplitude, bpmHistory, lastAnalysis,
                 beatLog, recorded>>

\* analyze() with the beat log kept for the claims, and without it.
AnalyzeLogged(dt, bass, amplitude) ==
  /\ Analyze(dt, bass, amplitude)
  /\ beatLog' = IF lastAnalysis'.beat THEN Logged(beatLog, now') ELSE beatLog

AnalyzeUnlogged(dt, bass, amplitude) ==
  /\ Analyze(dt, bass, amplitude)
  /\ UNCHANGED beatLog

\* Band values <<bass, amplitude>> in tenths.
Quiet == <<0, 0>>
Rising == <<7, 7>>
Strong == <<8, 8>>
Loud == <<10, 10>>

\* Frame-rate regime: calls 50 or 100 ms apart.
BeatHorizon == 700
BeatSteps == {50, 100}
BeatNext ==
  \/ Initialize
  \/ Destroy
  \/ \E dt \in BeatSteps, in \in {Quiet, Rising, Strong, Loud} :
       /\ now + dt <= BeatHorizon
       /\ AnalyzeLogged(dt, in[1], in[2])

\* Tempo regime: calls 300 ms apart, so detected beats are 300 (200 BPM),
\* 600 (100 BPM), 900 (66.7 BPM), 1200 (50 BPM), ... ms apart.
BpmTicks == 28
BpmNext ==
  \/ Initialize
  \/ \E in \in {Quiet, Rising, Loud} :
       /\ now + 300 <= BpmTicks * 300
       /\ AnalyzeUnlogged(300, in[1], in[2])

\* Worked-example regime: analyze() is called on a fixed schedule, with any
\* band values.  Loud calls at 150, 1150, 2118, 3102, 3402 and 4419 ms are
\* 1000, 968, 984, 300 and 1017 ms apart (60, 62, 61, 200 and 59 BPM); the
\* call 150 ms after each of them can re-arm the rising-edge test.
ExampleCallTimes ==
  {150, 300, 1150, 1300, 2118, 2268, 3102, 3252, 3402, 3552, 4419}
ExampleNext ==
  \/ Initialize
  \/ \E t \in ExampleCallTimes, in \in {Quiet, Rising, Loud} :
       /\ t > now
       /\ \A u \in ExampleCallTimes : u > now => t <= u
       /\ AnalyzeLogged(t - now, in[1], in[2])

----------------------------------------------------------------------------
\* Claims about the analyzer.

\* C6: any two calls of analyze() that return beat = true are at least
\* 150 ms apart, and a call made less than 150 ms after a detected beat
\* returns beat = false whatever the band values.
C6_BeatCooldown ==
  /\ [](\A i, j \in 1..Len(beatLog) :
          i < j => beatLog[j] - beatLog[i] >= 150)
  /\ [][(/\ beatLog # <<>>
         /\ now' # now
         /\ now' - beatLog[Len(beatLog)] < 150) => ~lastAnalysis'.beat]_vars

\* Two beats exactly 150 ms apart are in the log, and the latest call, made
\* inside the window after the second one with a loud rising signal,
\* returned no beat.
C6_Witness ==
  /\ Len(beatLog) >= 2
  /\ beatLog[Len(beatLog)] - beatLog[Len(beatLog) - 1] = 150
  /\ lastAnalysis.timestamp = now
  /\ now - beatLog[Len(beatLog)] \in 1..149
  /\ lastAnalysis.bass = 10
  /\ 10 * (7 * lastAnalysis.bass + 3 * lastAnalysis.amplitude)
       > 11 * previousAmplitude
  /\ ~lastAnalysis.beat

\* x is the k-th smallest entry of h.
IsKth(h, x, k) ==
  LET less == Cardinality({i \in DOMAIN h : FracLT(h[i], x)})
      leq == Cardinality({i \in DOMAIN h : FracLE(h[i], x)})
  IN  less < k /\ k <= leq

\* r is the integer nearest to the fraction q, halves going up.
RoundsTo(q, r) ==
  /\ (2 * r - 1) * q[2] <= 2 * q[1]
  /\ 2 * q[1] < (2 * r + 1) * q[2]

\* The reported BPM is 0 under 4 entries and the rounded median otherwise.
ReportsRoundedMedian ==
  LET h == bpmHistory
      n == Len(h)
  IN  IF n < 4 THEN lastAnalysis.bpm = 0
      ELSE \E i, j \in DOMAIN h :
             /\ IsKth(h, h[i], (n + 1) \div 2)
             /\ IsKth(h, h[j], n \div 2 + 1)
             /\ RoundsTo(FracMean(h[i], h[j]), lastAnalysis.bpm)

\* The beat sequence of the example has just been fed: six beats 1000, 968,
\* 984, 300 and 1017 ms apart (60, 62, 61, 200 and 59 BPM).
ExampleFed ==
  /\ beatLog = <<150, 1150, 2118, 3102, 3402, 4419>>
  /\ lastAnalysis.timestamp = 4419
  /\ now = 4419

\* C7 as stated: the reported BPM is 0 under 4 entries and the rounded
\* median otherwise, and the beat sequence [60,62,61,200,59] BPM yields a
\* reported BPM between 60 and 62.
C7_ExampleReportsMedian ==
  /\ ReportsRoundedMedian
  /\ ExampleFed => lastAnalysis.bpm \in 60..62

\* C7, amended: the reported BPM is 0 under 4 entries and the rounded median
\* otherwise; of the beat sequence [60,62,61,200,59] BPM only 60, 62 and 61
\* enter the history (200 and 59 are outside [60,180]), so the reported BPM
\* is 0.
C7_MedianOfRetained ==
  /\ ReportsRoundedMedian
  /\ ExampleFed =>
       /\ bpmHistory = << <<60000, 1000>>, <<60000, 968>>, <<60000, 984>> >>
       /\ lastAnalysis.bpm = 0

\* A call has just reported a BPM between 60 and 62 from a history of four
\* or more entries one of which is an outlier of 133 BPM or more.
C7_Witness ==
  /\ Len(bpmHistory) >= 4
  /\ \E i \in DOMAIN bpmHistory : bpmHistory[i][2] <= 450
  /\ lastAnalysis.timestamp = now
  /\ lastAnalysis.bpm \in 60..62

\* C8: the BPM history holds the newest 12 (or fewer) recorded entries in
\* arrival order, each 60000/interval within [60,180]; a detected beat whose
\* interval to the previous detected beat is in that range appends its BPM,
\* dropping the oldest entry when 12 are held; any other call, the first
\* detected beat included, leaves the history as it is.
C8_RollingHistory ==
  /\ [](/\ Len(bpmHistory) <= 12
        /\ Len(bpmHistory) = Min(recorded, 12)
        /\ \A i \in DOMAIN bpmHistory :
             /\ bpmHistory[i][1] = 60000
             /\ bpmHistory[i][2] > 0
             /\ 60 * bpmHistory[i][2] <= 60000
             /\ 60000 <= 180 * bpmHistory[i][2])
  /\ [][now' # now =>
          LET h == bpmHistory
              interval == now' - lastBeatTime
              valid == /\ lastAnalysis'.beat
                       /\ lastBeatTime > 0
                       /\ 60 * interval <= 60000
                       /\ 60000 <= 180 * interval
          IN  IF valid
              THEN bpmHistory' = IF Len(h) < 12
                                 THEN Append(h, <<60000, interval>>)
                                 ELSE Append(Tail(h), <<60000, interval>>)
              ELSE bpmHistory' = h]_vars

\* A beat has just pushed an entry onto a full history, evicting the oldest
\* one; the history holds different tempos.
C8_Witness ==
  /\ recorded > 12
  /\ Len(bpmHistory) = 12
  /\ lastAnalysis.beat
  /\ lastAnalysis.timestamp = now
  /\ bpmHistory[12] # bpmHistory[1]

----------------------------------------------------------------------------
\* Stateful generators: pulsePattern, fireworkPattern, tetrisPattern, and the
\* evaluatePatterns loop that calls them.
\* Render time is in ms, audio bands and config.parameters.decay in tenths,
\* heights and the tetris stack in 1e-4 scene units, fall speeds in 1e-3.

\* Program constants of the generators.
MAX_PULSES == 10
MAX_PARTICLES == 200
MaxTetrisBlocks == 40
AutoAmplitude == 1
PulseBeatGap == 250
PulseAutoGap == 1000
PulseLifeSpan == 40000
FireworkBeatGap == 250
FireworkAutoGap == 1200
TetrisBeatGap == 300
TetrisAutoGap == 600
TetrisAutoSpeed == 2500
TetrisStackStep == 3000
TetrisStackMax == 40000
TetrisStackDecay == 50
TetrisFloor == -30000
TetrisTrimLength == 30
TetrisTrimStopped == 15

Generators == {"pulse", "firework", "tetris"}

GenInit ==
  /\ renderTime = 0
  /\ call = [active |-> {}, reactive |-> {}, amplitude |-> 0, bass |-> 0,
             beat |-> FALSE, decay |-> 0, points |-> 0]
  /\ spawned = [g \in Generators |-> 0]
  /\ pulseTimes = <<>>
  /\ pulseLastBeatTime = 0
  /\ pulseLastAutoTime = 0
  /\ particles = <<>>
  /\ fireworkLastBeatTime = 0
  /\ fireworkLastAutoTime = 0
  /\ tetrisBlocks = <<>>
  /\ lastTetrisBeat = 0
  /\ lastTetrisAuto = 0
  /\ tetrisStackHeight = 0

\* if (list.length >= MAX) list.shift()
ShiftAtCapBroken(list, cap) ==
  IF Len(list) >= cap THEN SubSeq(list, 1, Len(list) - 1) ELSE list
ShiftAtCap(list, cap) == IF Len(list) >= cap THEN Tail(list) ELSE list

\* autoTrigger of pulsePattern.
PulseAutoTriggerBroken(t, audio) ==
  audio.amplitude < AutoAmplitude /\ t - pulseLastAutoTime > 2 * PulseAutoGap
PulseAutoTrigger(t, audio) ==
  audio.amplitude < AutoAmplitude /\ t - pulseLastAutoTime > PulseAutoGap

\* pulsePattern(position, time, config, audio): the module state it leaves.
pulsePattern(t, decay, audio) ==
  LET shouldTrigger == audio.beat /\ t - pulseLastBeatTime > PulseBeatGap
      autoTrigger == PulseAutoTrigger(t, audio)
      trigger == shouldTrigger \/ autoTrigger
      pushed == IF trigger
                THEN Append(ShiftAtCap(pulseTimes, MAX_PULSES),
                            [time |-> t, id |-> spawned["pulse"] + 1])
                ELSE pulseTimes
      \* age > maxPulseLife, maxPulseLife = 4 / decay
      old(p) == (t - p.time) * decay > PulseLifeSpan
  IN  [pulseTimes |-> SelectSeq(pushed, LAMBDA p : ~old(p)),
       lastBeatTime |-> IF shouldTrigger THEN t ELSE pulseLastBeatTime,
       lastAutoTime |-> IF autoTrigger THEN t ELSE pulseLastAutoTime,
       spawned |-> IF trigger THEN spawned["pulse"] + 1 ELSE spawned["pulse"]]

\* life: 1.5 + Math.random(), the draws of one burst alternating between two
\* values from the seed on.
RandomLife(i, seed) == 1500 + 900 * ((i + seed) % 2)

\* The spawn loop of fireworkPattern, from particle i on.
RECURSIVE PushParticles(_, _, _, _, _, _)
PushParticles(list, i, particleCount, t, seed, firstId) ==
  IF i >= particleCount THEN list
  ELSE PushParticles(
         Append(ShiftAtCap(list, MAX_PARTICLES),
                [startTime |-> t, life |-> RandomLife(i, seed),
                 id |-> firstId + i]),
         i + 1, particleCount, t, seed, firstId)

\* fireworkPattern(position, time, config, audio): the module state it
\* leaves; clean is the outcome of Math.random() < 0.1.
fireworkPattern(t, decay, audio, seed, clean) ==
  LET shouldTrigger == audio.beat /\ t - fireworkLastBeatTime > FireworkBeatGap
      autoTrigger == /\ audio.amplitude < AutoAmplitude
                     /\ t - fireworkLastAutoTime > FireworkAutoGap
      trigger == shouldTrigger \/ autoTrigger
      particleCount == Min(25, 15 + (audio.amplitude * 15) \div 10)
      pushed == IF trigger
                THEN PushParticles(particles, 0, particleCount, t, seed,
                                   spawned["firework"] + 1)
                ELSE particles
      \* time - startTime > life / decay
      dead(p) == (t - p.startTime) * decay > p.life * 10
  IN  [particles |-> IF Len(pushed) > 0 /\ clean
                     THEN SelectSeq(pushed, LAMBDA p : ~dead(p))
                     ELSE pushed,
       lastBeatTime |-> IF shouldTrigger THEN t ELSE fireworkLastBeatTime,
       lastAutoTime |-> IF autoTrigger THEN t ELSE fireworkLastAutoTime,
       spawned |-> IF trigger THEN spawned["firework"] + particleCount
                   ELSE spawned["firework"]]

\* y: 10 + Math.random() * 3, the draws of one spawn staggered by position.
RandomHeight(b) == 100000 + 10000 * (b % 3)

\* while (tetrisBlocks.length > 40) tetrisBlocks.shift()
RECURSIVE TrimToCap(_)
TrimToCap(blocks) ==
  IF Len(blocks) > MaxTetrisBlocks THEN TrimToCap(Tail(blocks)) ELSE blocks

\* The sequence s without its i-th element.
RemoveAt(s, i) == SubSeq(s, 1, i - 1) \o SubSeq(s, i + 1, Len(s))

\* block.y -= block.speed * 0.016, then the landing test.
Fall(block, landingY) ==
  LET y == block.y - (block.speed * 16) \div 100
  IN  IF y < landingY THEN [block EXCEPT !.y = landingY, !.speed = 0]
      ELSE [block EXCEPT !.y = y]

\* The loop over the falling blocks.
RECURSIVE FallAll(_, _)
FallAll(blocks, landingY) ==
  IF blocks = <<>> THEN <<>>
  ELSE <<Fall(Head(blocks), landingY)>> \o FallAll(Tail(blocks), landingY)

\* One call of tetrisPattern(position, time, config, audio) on the module
\* state s = [blocks, lastBeat, lastAuto, stack, spawned].
tetrisPattern(s, t, audio) ==
  LET shouldTrigger == audio.beat /\ t - s.lastBeat > TetrisBeatGap
      autoTrigger == /\ audio.amplitude < AutoAmplitude
                     /\ t - s.lastAuto > TetrisAutoGap
      trigger == shouldTrigger \/ autoTrigger
      blockCount == IF shouldTrigger THEN 2 + (audio.bass * 2) \div 10 ELSE 2
      speed == IF shouldTrigger THEN 3000 + 400 * audio.bass
               ELSE TetrisAutoSpeed
      created == [b \in 1..blockCount |->
                    [y |-> RandomHeight(b), speed |-> speed,
                     id |-> s.spawned + b]]
      pushed == IF trigger THEN TrimToCap(s.blocks \o created) ELSE s.blocks
      raised == IF trigger /\ audio.bass > 6
                THEN Min(TetrisStackMax, s.stack + TetrisStackStep)
                ELSE s.stack
      stack == Max(0, raised - TetrisStackDecay)
      landingY == TetrisFloor + stack
      fallen == FallAll(pushed, landingY)
      stopped == {i \in DOMAIN fallen : fallen[i].speed = 0}
      kept == IF /\ Len(fallen) > TetrisTrimLength
                 /\ Cardinality(stopped) > TetrisTrimStopped
              THEN RemoveAt(fallen,
                            CHOOSE i \in stopped : \A j \in stopped : i <= j)
              ELSE fallen
  IN  [blocks |-> kept,
       lastBeat |-> IF shouldTrigger THEN t ELSE s.lastBeat,
       lastAuto |-> IF autoTrigger THEN t ELSE s.lastAuto,
       stack |-> stack,
       spawned |-> IF trigger THEN s.spawned + blockCount ELSE s.spawned]

\* n calls with the same time and audio, as one frame makes for n points.
RECURSIVE tetrisCalls(_, _, _, _)
tetrisCalls(s, t, audio, n) ==
  IF n = 0 THEN s
  ELSE LET next == tetrisPattern(s, t, audio)
       IN  \* a call that changes nothing is a fixed point of the rest
           IF next = s THEN s ELSE tetrisCalls(next, t, audio, n - 1)

\* The snapshot non-reactive patterns are given: every band 0.5, no beat.
neutralAudio ==
  [bass |-> 5, mid |-> 5, treble |-> 5, amplitude |-> 5, beat |-> FALSE]

\* audioToUse = pattern.audioReactive ? audio : neutralAudio
audioToUseBroken(audioReactive, audio) == audio
audioToUse(audioReactive, audio) ==
  IF audioReactive THEN audio ELSE neutralAudio

\* One frame, dt ms after the previous one: evaluatePatterns for each of
\* `points` positions calls the function of every active pattern with the
\* frame's time and, for the patterns in `reactive`, the frame's audio; the
\* others are given neutralAudio.  Repeated calls within the frame change
\* nothing in pulse; in firework they repeat the clean-up draw (clean: some
\* call of the frame drew below 0.1).
EvaluatePatterns(active, reactive, dt, decay, audio, points, seed, clean) ==
  LET t == renderTime + dt
      heard(g) == audioToUse(g \in reactive, audio)
      pu == pulsePattern(t, decay, heard("pulse"))
      fw == fireworkPattern(t, decay, heard("firework"), seed, clean)
      te == tetrisCalls([blocks |-> tetrisBlocks, lastBeat |-> lastTetrisBeat,
                         lastAuto |-> lastTetrisAuto,
                         stack |-> tetrisStackHeight,
                         spawned |-> spawned["tetris"]],
                        t, heard("tetris"), points)
  IN  /\ renderTime' = t
      /\ call' = [active |-> active, reactive |-> reactive,
                  amplitude |-> audio.amplitude, bass |-> audio.bass,
                  beat |-> audio.beat, decay |-> decay, points |-> points]
      /\ IF "pulse" \in active
         THEN /\ pulseTimes' = pu.pulseTimes
              /\ pulseLastBeatTime' = pu.lastBeatTime
              /\ pulseLastAutoTime' = pu.lastAutoTime
         ELSE UNCHANGED pulseVars
      /\ IF "firework" \in active
         THEN /\ particles' = fw.particles
              /\ fireworkLastBeatTime' = fw.lastBeatTime
              /\ fireworkLastAutoTime' = fw.lastAutoTime
         ELSE UNCHANGED fireworkVars
      /\ IF "tetris" \in active
         THEN /\ tetrisBlocks' = te.blocks
              /\ lastTetrisBeat' = te.lastBeat
              /\ lastTetrisAuto' = te.lastAuto
              /\ tetrisStackHeight' = te.stack
         ELSE UNCHANGED tetrisVars
      /\ spawned' = [g \in Generators |->
                       IF g \notin active THEN spawned[g]
                       ELSE IF g = "pulse" THEN pu.spawned
                       ELSE IF g = "firework" THEN fw.spawned
                       ELSE te.spawned]
      /\ UNCHANGED notGenVars

\* resetPulse(): lastAutoTime is not reset.
ResetPulse ==
  /\ pulseTimes' = <<>>
  /\ pulseLastBeatTime' = 0
  /\ UNCHANGED <<notGenVars, renderTime, call, spawned, pulseLastAutoTime,
                 fireworkVars, tetrisVars>>

\* resetFireworks()
ResetFireworks ==
  /\ particles' = <<>>
  /\ fireworkLastBeatTime' = 0
  /\ fireworkLastAutoTime' = 0
  /\ UNCHANGED <<notGenVars, renderTime, call, spawned, pulseVars, tetrisVars>>

\* Audio inputs [amplitude, bass, beat]: silence, the neutralAudio of
\* non-reactive patterns, and a full-scale beat.
Silence == [amplitude |-> 0, bass |-> 0, beat |-> FALSE]
Hum == [amplitude |-> 5, bass |-> 5, beat |-> FALSE]
Kick == [amplitude |-> 10, bass |-> 10, beat |-> TRUE]

\* config.parameters.decay, tenths: the default and the largest allowed.
DefaultDecay == 5
MaxDecay == 20
Decays == {DefaultDecay, MaxDecay}

\* The active list stays as it is through one behaviour.
Mounted(active) == call.active \in {{}, active}

\* Quiet regime: mostly silent frames, 300 or 500 ms apart, of one point.
\* One generator is driven with every option, or all three together with
\* the default decay.
QuietHorizon == 3000
QuietInputs == {<<300, Silence>>, <<500, Silence>>, <<500, Hum>>, <<500, Kick>>}
QuietNext ==
  \/ \E in \in QuietInputs, decay \in Decays :
       /\ renderTime + in[1] <= QuietHorizon
       /\ Mounted({"pulse"})
       /\ EvaluatePatterns({"pulse"}, {"pulse"}, in[1], decay, in[2], 1, 0, FALSE)
  \/ \E in \in QuietInputs, seed \in {0, 1}, clean \in BOOLEAN :
       /\ renderTime + in[1] <= QuietHorizon
       /\ Mounted({"firework"})
       /\ EvaluatePatterns({"firework"}, {"firework"}, in[1], MaxDecay, in[2], 1, seed, clean)
  \/ \E in \in QuietInputs :
       /\ renderTime + in[1] <= QuietHorizon
       /\ Mounted({"tetris"})
       /\ EvaluatePatterns({"tetris"}, {"tetris"}, in[1], DefaultDecay, in[2], 1, 0, FALSE)
  \/ \E in \in QuietInputs :
       /\ renderTime + in[1] <= QuietHorizon
       /\ Mounted(Generators)
       /\ EvaluatePatterns(Generators, Generators, in[1], DefaultDecay, in[2], 1, 0, TRUE)
  \/ call.active = {"pulse"} /\ ResetPulse
  \/ call.active = {"firework"} /\ ResetFireworks

\* Storm regime: a beat every 400 ms with silent gaps of 500 ms; tetris is
\* evaluated for one point or for a frame of FramePoints points.
StormHorizon == 4400
FramePoints == 60
StormInputs == {<<400, Kick>>, <<500, Silence>>}
StormNext ==
  \/ \E in \in StormInputs, decay \in Decays :
       /\ renderTime + in[1] <= StormHorizon
       /\ Mounted({"pulse"})
       /\ EvaluatePatterns({"pulse"}, {"pulse"}, in[1], decay, in[2], 1, 0, FALSE)
  \/ \E in \in StormInputs, decay \in Decays, clean \in BOOLEAN :
       /\ renderTime + in[1] <= StormHorizon
       /\ Mounted({"firework"})
       /\ EvaluatePatterns({"firework"}, {"firework"}, in[1], decay, in[2], 1, 0, clean)
  \/ \E points \in {1, FramePoints} :
       /\ renderTime + 400 <= StormHorizon
       /\ Mounted({"tetris"})
       /\ EvaluatePatterns({"tetris"}, {"tetris"}, 400, DefaultDecay, Kick, points, 0,
                           FALSE)
  \/ \E in \in StormInputs :
       /\ renderTime + in[1] <= StormHorizon
       /\ Mounted(Generators)
       /\ EvaluatePatterns(Generators, Generators, in[1], DefaultDecay, in[2], 1, 0, TRUE)

----------------------------------------------------------------------------
\* Claims about the generators.

Ids(list) == {list[i].id : i \in DOMAIN list}

\* Entries are held oldest first.
InArrivalOrder(list) ==
  \A i, j \in DOMAIN list : i < j => list[i].id < list[j].id

\* One step from list old to list new under a cap: with k the number of
\* entries by which old plus the newly pushed ones exceed the cap, the k
\* oldest entries of old are gone, and any other entry that is gone had
\* aged out.
OldestEvicted(old, new, cap, Aged(_)) ==
  LET fresh == Cardinality(Ids(new) \ Ids(old))
      k == Max(0, Len(old) + fresh - cap)
  IN  \A i \in DOMAIN old :
        IF i <= k THEN old[i].id \notin Ids(new)
        ELSE old[i].id \notin Ids(new) => Aged(old[i])

\* C9: after every call the pulse, particle and block lists hold at most 10,
\* 200 and 40 entries, oldest first, and the entries a call drops to make
\* room under the cap are the oldest ones; whatever else it drops had aged
\* out (a pulse older than 4/decay, a particle older than life/decay, a
\* block that has landed).
C9_CapsEvictOldest ==
  /\ [](/\ Len(pulseTimes) <= 10
        /\ Len(particles) <= 200
        /\ Len(tetrisBlocks) <= 40
        /\ InArrivalOrder(pulseTimes)
        /\ InArrivalOrder(particles)
        /\ InArrivalOrder(tetrisBlocks))
  /\ [][/\ OldestEvicted(pulseTimes, pulseTimes', 10,
             LAMBDA e : (renderTime' - e.time) * call'.decay > 40000)
        /\ OldestEvicted(particles, particles', 200,
             LAMBDA e : (renderTime' - e.startTime) * call'.decay
                          > e.life * 10)
        /\ OldestEvicted(tetrisBlocks, tetrisBlocks', 40,
             LAMBDA e : \/ e.speed = 0
                        \/ e.y - call'.points * ((e.speed * 16) \div 100)
                             < Min(40000, tetrisStackHeight + 3000) - 30000)
       ]_vars

\* All three generators have just been called together and have pushed new
\* entries; each list is at its cap and has lost its oldest entries.
C9_Witness ==
  /\ call.active = Generators
  /\ Len(pulseTimes) = 10 /\ pulseTimes[1].id > 1
  /\ pulseTimes[10].time = renderTime
  /\ Len(particles) = 200 /\ particles[1].id > 1
  /\ particles[200].startTime = renderTime
  /\ Len(tetrisBlocks) = 40 /\ tetrisBlocks[1].id > 1
  /\ tetrisBlocks[40].id = spawned["tetris"]

\* A frame of many points has trimmed landed blocks from a long block list.
TetrisTrimmed ==
  /\ call.active = {"tetris"}
  /\ Len(tetrisBlocks) = 30
  /\ \E i \in DOMAIN tetrisBlocks : tetrisBlocks[i].speed = 0
  /\ \E i \in 1..29 : tetrisBlocks[i + 1].id > tetrisBlocks[i].id + 1

\* The tetris cap evicts from a list that holds landed blocks.
TetrisEvictedLanded ==
  /\ call.active = {"tetris"}
  /\ Len(tetrisBlocks) = 40
  /\ tetrisBlocks[1].id > 1
  /\ tetrisBlocks[1].speed = 0
  /\ tetrisBlocks[40].id = spawned["tetris"]

\* The entries of new that old does not hold.
Spawned(old, new) == Ids(new) \ Ids(old)

\* C10: a call with amplitude < 0.1 made more than the idle window (pulse
\* 1.0 s, firework 1.2 s, tetris 0.6 s) after the generator's last
\* auto-trigger spawns a new feature (a pulse, a burst of at least 15
\* particles, two blocks) and restarts the window; a call without a beat
\* made within the window spawns nothing.
C10_AutoTrigger ==
  [][/\ ("pulse" \in call'.active /\ renderTime' # renderTime) =>
          IF call'.amplitude < 1 /\ renderTime' - pulseLastAutoTime > 1000
          THEN /\ pulseLastAutoTime' = renderTime'
               /\ \E i \in DOMAIN pulseTimes' :
                    /\ pulseTimes'[i].time = renderTime'
                    /\ pulseTimes'[i].id \in Spawned(pulseTimes, pulseTimes')
          ELSE /\ pulseLastAutoTime' = pulseLastAutoTime
               /\ ~call'.beat => Spawned(pulseTimes, pulseTimes') = {}
     /\ ("firework" \in call'.active /\ renderTime' # renderTime) =>
          IF call'.amplitude < 1 /\ renderTime' - fireworkLastAutoTime > 1200
          THEN /\ fireworkLastAutoTime' = renderTime'
               /\ Cardinality(Spawned(particles, particles')) >= 15
               /\ \A i \in DOMAIN particles' :
                    particles'[i].id \in Spawned(particles, particles')
                      => particles'[i].startTime = renderTime'
          ELSE /\ fireworkLastAutoTime' = fireworkLastAutoTime
               /\ ~call'.beat => Spawned(particles, particles') = {}
     /\ ("tetris" \in call'.active /\ renderTime' # renderTime) =>
          IF call'.amplitude < 1 /\ renderTime' - lastTetrisAuto > 600
          THEN /\ lastTetrisAuto' = renderTime'
               /\ Cardinality(Spawned(tetrisBlocks, tetrisBlocks')) >= 2
          ELSE /\ lastTetrisAuto' = lastTetrisAuto
               /\ ~call'.beat => Spawned(tetrisBlocks, tetrisBlocks') = {}
    ]_vars

\* No beat has triggered anything, and a silent call has just auto-triggered
\* all three generators, each for the second time or more.
C10_Witness ==
  /\ call.active = Generators
  /\ call.amplitude = 0 /\ ~call.beat
  /\ pulseLastBeatTime = 0 /\ fireworkLastBeatTime = 0 /\ lastTetrisBeat = 0
  /\ pulseLastAutoTime = renderTime
  /\ fireworkLastAutoTime = renderTime
  /\ lastTetrisAuto = renderTime
  /\ Len(pulseTimes) >= 2
  /\ spawned["firework"] >= 30
  /\ spawned["tetris"] >= 4

\* C17: after the reset function of a stateful generator has run, the
\* generator's entity list and both of its spawn timers are as on load.
C17_ResetRestoresInitial ==
  [][/\ ResetPulse =>
          /\ pulseTimes' = <<>>
          /\ pulseLastBeatTime' = 0
          /\ pulseLastAutoTime' = 0
     /\ ResetFireworks =>
          /\ particles' = <<>>
          /\ fireworkLastBeatTime' = 0
          /\ fireworkLastAutoTime' = 0]_vars

----------------------------------------------------------------------------
\* evaluatePatterns and the audio each pattern function is given.

\* PatternType
PatternTypes ==
  {"wave", "firework", "rain", "pulse", "blob", "custom", "audioSpectrum",
   "verticalWave", "starfield", "tetris", "saturn"}

\* patternFunctions[type]
patternFunctions(type) ==
  CASE type = "wave" -> "wavePattern"
    [] type = "firework" -> "fireworkPattern"
    [] type = "rain" -> "rainPattern"
    [] type = "pulse" -> "pulsePattern"
    [] type = "blob" -> "blobPattern"
    [] type = "custom" -> "linearWave"
    [] type = "audioSpectrum" -> "audioSpectrumPattern"
    [] type = "verticalWave" -> "verticalWavePattern"
    [] type = "starfield" -> "starfieldPattern"
    [] type = "tetris" -> "tetrisPattern"
    [] type = "saturn" -> "saturnPattern"
    \* the table is an object literal, so a key it does not own is looked
    \* up on Object.prototype
    [] type = "constructor" -> "Object"
    [] type = "toString" -> "Object.prototype.toString"
    [] type = "hasOwnProperty" -> "Object.prototype.hasOwnProperty"
    [] type = "__proto__" -> "Object.prototype"
    [] OTHER -> "undefined"

\* The fields of its audio argument each stateless pattern function reads;
\* none reads the audio store or any other live source.
WaveReads(fn) ==
  CASE fn = "wavePattern" -> {"amplitude", "bass", "beat", "treble"}
    [] fn = "linearWave" -> {"mid", "amplitude"}
RainReads == {"amplitude", "bass"}
BlobReads == {"amplitude", "beat", "bass"}
FrequencyZonesReads(fn) ==
  CASE fn = "audioSpectrumPattern" -> {"bass", "mid", "treble", "beat"}
    [] fn = "verticalWavePattern" ->
         {"bass", "mid", "amplitude", "treble", "beat"}
ExtrasReads(fn) ==
  CASE fn = "starfieldPattern" -> {"amplitude", "treble", "beat"}
    [] fn = "saturnPattern" -> {"bass", "mid", "treble"}
AudioReads(fn) ==
  CASE fn \in {"wavePattern", "linearWave"} -> WaveReads(fn)
    [] fn = "rainPattern" -> RainReads
    [] fn = "blobPattern" -> BlobReads
    [] fn \in {"audioSpectrumPattern", "verticalWavePattern"} ->
         FrequencyZonesReads(fn)
    [] fn \in {"starfieldPattern", "saturnPattern"} -> ExtrasReads(fn)

\* What determines the { intensity, colorShift } one call of a pattern
\* function returns, the position and the config being passed on as given:
\* for a stateless function the time and the audio fields it reads, for a
\* stateful one the time and the entities its module state holds once the
\* call has spawned and expired what it does.
GeneratorResult(type, t, decay, audio, seed, clean) ==
  LET fn == patternFunctions(type)
  IN  CASE fn = "pulsePattern" ->
             [fn |-> fn, time |-> t,
              entities |-> pulsePattern(t, decay, audio).pulseTimes,
              stack |-> 0]
        [] fn = "fireworkPattern" ->
             [fn |-> fn, time |-> t,
              entities |->
                fireworkPattern(t, decay, audio, seed, clean).particles,
              stack |-> 0]
        [] fn = "tetrisPattern" ->
             LET te == tetrisPattern(
                         [blocks |-> tetrisBlocks, lastBeat |-> lastTetrisBeat,
                          lastAuto |-> lastTetrisAuto,
                          stack |-> tetrisStackHeight,
                          spawned |-> spawned["tetris"]], t, audio)
             IN  [fn |-> fn, time |-> t, entities |-> te.blocks,
                  stack |-> te.stack]
        [] OTHER ->
             [fn |-> fn, time |-> t,
              heard |-> [f \in AudioReads(fn) |-> audio[f]]]

\* evaluatePatterns(position, time, [pattern], audio) for one pattern of the
\* given type and audioReactive flag, dt ms after the previous frame.
PatternResult(type, audioReactive, dt, audio) ==
  GeneratorResult(type, renderTime + dt, DefaultDecay,
                  audioToUse(audioReactive, audio), 0, TRUE)

\* Live snapshots [bass, mid, treble, amplitude, beat], tenths.
AudioSnapshots ==
  {[bass |-> 0, mid |-> 0, treble |-> 0, amplitude |-> 0, beat |-> FALSE],
   [bass |-> 10, mid |-> 10, treble |-> 10, amplitude |-> 10, beat |-> TRUE],
   [bass |-> 7, mid |-> 2, treble |-> 9, amplitude |-> 4, beat |-> TRUE],
   neutralAudio}

\* Mixed regime: one stateful generator, its pattern switched between
\* audio-reactive and not from frame to frame, beats 400 ms apart and silent
\* gaps of 500 ms.
NeutralHorizon == 2500
NeutralInputs == {<<400, Kick>>, <<500, Silence>>}
NeutralNext ==
  \/ \E in \in NeutralInputs, r \in SUBSET {"pulse"} :
       /\ renderTime + in[1] <= NeutralHorizon
       /\ Mounted({"pulse"})
       /\ EvaluatePatterns({"pulse"}, r, in[1], DefaultDecay, in[2], 1, 0,
                           TRUE)
  \/ \E in \in NeutralInputs, r \in SUBSET {"firework"} :
       /\ renderTime + in[1] <= NeutralHorizon
       /\ Mounted({"firework"})
       /\ EvaluatePatterns({"firework"}, r, in[1], DefaultDecay, in[2], 1, 0,
                           TRUE)
  \/ \E in \in NeutralInputs, r \in SUBSET {"tetris"} :
       /\ renderTime + in[1] <= NeutralHorizon
       /\ Mounted({"tetris"})
       /\ EvaluatePatterns({"tetris"}, r, in[1], DefaultDecay, in[2], 1, 0,
                           TRUE)

\* C11: from any generator state, a pattern of any type with audioReactive =
\* false evaluated at a given time yields the same result whichever two live
\* snapshots evaluatePatterns is handed.
C11_NeutralIsolation ==
  \A type \in PatternTypes, dt \in {400, 500} :
    \A a1 \in AudioSnapshots, a2 \in AudioSnapshots :
      PatternResult(type, FALSE, dt, a1) = PatternResult(type, FALSE, dt, a2)

\* A non-reactive firework pattern has just been evaluated under a live
\* beat, on particles an earlier audio-reactive frame left behind.
C11_Witness ==
  /\ call.active = {"firework"}
  /\ call.reactive = {}
  /\ call.beat
  /\ particles # <<>>

\* Neutral regime: every pattern is non-reactive in every frame, whatever
\* the live audio.
IdleHorizon == 3000
IdleInputs ==
  {<<300, Silence>>, <<400, Kick>>, <<500, Silence>>, <<500, Hum>>}
IdleNext ==
  \/ \E in \in IdleInputs :
       /\ renderTime + in[1] <= IdleHorizon
       /\ Mounted({"pulse"})
       /\ EvaluatePatterns({"pulse"}, {}, in[1], DefaultDecay, in[2], 1, 0,
                           TRUE)
  \/ \E in \in IdleInputs :
       /\ renderTime + in[1] <= IdleHorizon
       /\ Mounted({"firework"})
       /\ EvaluatePatterns({"firework"}, {}, in[1], DefaultDecay, in[2], 1, 0,
                           TRUE)
  \/ \E in \in IdleInputs :
       /\ renderTime + in[1] <= IdleHorizon
       /\ Mounted({"tetris"})
       /\ EvaluatePatterns({"tetris"}, {}, in[1], DefaultDecay, in[2], 1, 0,
                           TRUE)
  \/ \E in \in IdleInputs :
       /\ renderTime + in[1] <= IdleHorizon
       /\ Mounted(Generators)
       /\ EvaluatePatterns(Generators, {}, in[1], DefaultDecay, in[2], 1, 0,
                           TRUE)

\* The idle window of each generator's auto-trigger, ms.
AutoGap(g) ==
  CASE g = "pulse" -> PulseAutoGap
    [] g = "firework" -> FireworkAutoGap
    [] g = "tetris" -> TetrisAutoGap

\* C12: a stateful generator driven only by the neutral snapshot still
\* spawns as time advances: once the frames have run past twice its idle
\* window it has spawned a shell, a burst or a block.
C12_NeutralStillSpawns ==
  \A g \in Generators :
    (g \in call.active /\ renderTime > 2 * AutoGap(g)) => spawned[g] > 0

----------------------------------------------------------------------------
\* The accumulation of evaluatePatterns and the linear wave.  Intensities
\* are in 1e-3 (1000 standing for 1.0), colour shifts in 1e-5 (100000
\* standing for 1.0), positions in whole scene units, times in ms.

EvalInit ==
  /\ generated = <<>>
  /\ resultCache = [intensity |-> 0, colorShift |-> 0]
  /\ linearResult = [intensity |-> 0, colorShift |-> 0]

\* Math.min(1, totalIntensity)
SaturateBroken(totalIntensity) == totalIntensity
Saturate(totalIntensity) == Min(1000, totalIntensity)

\* The loop of evaluatePatterns over the results of its pattern functions.
RECURSIVE Accumulate(_, _, _)
Accumulate(results, i, acc) ==
  IF i > Len(results) THEN acc
  ELSE Accumulate(results, i + 1,
         [totalIntensity |-> acc.totalIntensity + results[i].intensity,
          colorAccum |-> acc.colorAccum
                           + results[i].colorShift * results[i].intensity,
          weightSum |-> acc.weightSum + results[i].intensity])

\* evaluatePatterns, given what each pattern function returned.
evaluatePatternsBroken(results) ==
  LET acc == Accumulate(results, 1,
               [totalIntensity |-> 0, colorAccum |-> 0, weightSum |-> 0])
  IN  [intensity |-> Saturate(acc.totalIntensity),
       colorShift |-> IF acc.weightSum > 0
                      THEN acc.colorAccum \div 1000 ELSE 0]
evaluatePatterns(results) ==
  LET acc == Accumulate(results, 1,
               [totalIntensity |-> 0, colorAccum |-> 0, weightSum |-> 0])
  IN  [intensity |-> Saturate(acc.totalIntensity),
       colorShift |-> IF acc.weightSum > 0
                      THEN acc.colorAccum \div acc.weightSum ELSE 0]

\* One call of evaluatePatterns whose pattern functions return `results`.
Evaluate(results) ==
  /\ generated' = results
  /\ resultCache' = evaluatePatterns(results)
  /\ UNCHANGED <<notEvalVars, linearResult>>

\* Lists of up to MaxActive patterns, each result within its range.
MaxActive == 3
GeneratorResults ==
  [intensity : {0, 400, 1000}, colorShift : {0, 99999}]
ComposeNext ==
  \E n \in 0..MaxActive : \E results \in [1..n -> GeneratorResults] :
    Evaluate(results)

\* a % b of JavaScript: the remainder takes the sign of the dividend.
JsRem(a, b) == IF a >= 0 THEN a % b ELSE -((-a) % b)

\* Math.sqrt of a perfect square.
Isqrt(n) == CHOOSE r \in 0..n : r * r = n

\* linearWave(position, time, config, audio).  sin1, sin2 and sin3 stand for
\* Math.sin of the two wave phases and of the height phase, tenths in
\* -10..10; the direction is along one axis, so that its length is whole.
linearWave(position, t, parameters, audio, sin1, sin2, sin3) ==
  LET dir == parameters.direction
      len == Isqrt(dir.x * dir.x + dir.y * dir.y + dir.z * dir.z)
      dirLen == IF len = 0 THEN 1 ELSE len
      \* position.x * ndx + position.y * ndy + position.z * ndz
      dot == position.x * dir.x + position.y * dir.y + position.z * dir.z
      projection == IF dot >= 0 THEN dot \div dirLen ELSE -((-dot) \div dirLen)
      wave1 == sin1 + 10          \* twentieths
      wave2 == sin2 + 10
      \* (wave1 * 0.6 + wave2 * 0.4) * intensity * (0.4 + amplitude * 0.8)
      \*   * (sin3 * 0.15 + 0.85), over 200 * 10 * 100 * 1000
      raw == (6 * wave1 + 4 * wave2) * parameters.intensity
               * (40 + 8 * audio.amplitude) * (15 * sin3 + 850)
      intensity == raw \div 200000
  IN  [intensity |-> Min(1000, Max(0, intensity)),
       colorShift |-> JsRem(projection * 8000 + t * 12, 100000)]

\* One call of linearWave.
LinearWave(position, t, parameters, audio, sin1, sin2, sin3) ==
  /\ linearResult' = linearWave(position, t, parameters, audio, sin1, sin2,
                                sin3)
  /\ UNCHANGED <<notEvalVars, generated, resultCache>>

\* Grid points along x, axis directions and the zero vector, a few frame
\* times, intensities and amplitudes in tenths.
MaxCoordinate == 4
Directions ==
  {[x |-> 1, y |-> 0, z |-> 0], [x |-> -2, y |-> 0, z |-> 0],
   [x |-> 0, y |-> 1, z |-> 0], [x |-> 0, y |-> 0, z |-> 0]}
WaveNext ==
  \E x \in -MaxCoordinate..MaxCoordinate, y \in {0, 6}, dir \in Directions,
     t \in {0, 1500, 4000}, intensity \in {5, 10}, amplitude \in {0, 10},
     sin1 \in {-10, 10}, sin3 \in {-10, 10} :
    LinearWave([x |-> x, y |-> y, z |-> 0], t,
               [direction |-> dir, intensity |-> intensity],
               [amplitude |-> amplitude, mid |-> amplitude], sin1, 0, sin3)

\* The sum of the intensities of a list of results.
RECURSIVE SumIntensity(_)
SumIntensity(results) ==
  IF results = <<>> THEN 0
  ELSE Head(results).intensity + SumIntensity(Tail(results))

\* C13: for pattern functions returning intensities in [0,1], the intensity
\* evaluatePatterns returns is min(1, sum of those intensities), which lies
\* in [0,1], and is 0 for an empty list.
C13_SaturatingComposition ==
  /\ resultCache.intensity =
       IF SumIntensity(generated) > 1000 THEN 1000
       ELSE SumIntensity(generated)
  /\ resultCache.intensity \in 0..1000
  /\ generated = <<>> => resultCache.intensity = 0

\* Three patterns whose intensities add up to more than 1 have been
\* evaluated, and the result is exactly 1.
C13_Witness ==
  /\ Len(generated) = 3
  /\ \A i \in 1..3 : generated[i].intensity \in 1..999
  /\ SumIntensity(generated) > 1000
  /\ resultCache.intensity = 1000

\* C14: every pattern function returns an intensity in [0,1] and a
\* colorShift in [0,1); stated for what linearWave returns.
C14_GeneratorRanges ==
  /\ linearResult.intensity \in 0..1000
  /\ linearResult.colorShift \in 0..99999

----------------------------------------------------------------------------
\* Claims about the analyzer's life cycle and the snapshots it returns.

\* C15: analyze() on an analyzer that was never initialized, or that has
\* been destroyed, returns the all-zero snapshot (every band and the
\* amplitude 0, no beat, bpm 0, an empty frequencyData array, timestamp 0)
\* and leaves lastBeatTime, previousAmplitude and the BPM history as they
\* are.
C15_UninitializedAnalyze ==
  [][(now' # now /\ ~analyserNode) =>
       /\ lastAnalysis' =
            [bass |-> 0, mid |-> 0, treble |-> 0, amplitude |-> 0,
             beat |-> FALSE, bpm |-> 0,
             frequencyData |-> [shared |-> FALSE, bins |-> <<>>],
             timestamp |-> 0]
       /\ UNCHANGED <<lastBeatTime, previousAmplitude, bpmHistory>>]_vars

\* The analyzer detected a beat, was destroyed, and analyze() has since
\* returned the empty snapshot while the beat fields kept their values.
C15_Witness ==
  /\ ~analyserNode
  /\ lastBeatTime > 0
  /\ previousAmplitude > 0
  /\ now > lastBeatTime
  /\ lastAnalysis.timestamp = 0
  /\ lastAnalysis.amplitude = 0

\* Snapshot regime: analyze() every 100 ms with changing band levels, a
\* reader keeping a snapshot now and then, the analyzer re-initialized at
\* any point.
SnapshotHorizon == 500
SnapshotInputs == {<<0, 0, 0, 0>>, <<9, 3, 1, 9>>, <<4, 6, 2, 5>>}
SnapshotNext ==
  \/ Initialize
  \/ \E in \in SnapshotInputs :
       /\ now + 100 <= SnapshotHorizon
       /\ AnalyzeBands(100, in[1], in[2], in[3], in[4])
       /\ UNCHANGED beatLog
  \/ Hold

\* C16: a snapshot analyze() returned never changes afterwards: the
\* contents of the frequencyData array of a snapshot a reader holds are
\* what they were when analyze() returned it.
C16_SnapshotImmutable == Deref(held) = published

----------------------------------------------------------------------------
\* The audio file of the audio store and the analyzer set up for it.

AudioInit ==
  /\ audioUrl = 0
  /\ liveUrls = {}
  /\ urlsCreated = 0
  /\ peakUrls = 0
  /\ setupPending = FALSE

\* setAudioFile(file): the previous URL is revoked, then one is created for
\* the file (none for null) and stored.  A changed, non-null audioUrl makes
\* the audio setup effect of App run after the render.
SetAudioFile(file) ==
  LET revoked == IF audioUrl # 0 THEN liveUrls \ {audioUrl} ELSE liveUrls
      newUrl == IF file THEN urlsCreated + 1 ELSE 0
  IN  /\ liveUrls' = IF file THEN revoked \cup {newUrl} ELSE revoked
      /\ peakUrls' = Max(peakUrls, Max(Cardinality(revoked),
                                       Cardinality(liveUrls')))
      /\ urlsCreated' = IF file THEN urlsCreated + 1 ELSE urlsCreated
      /\ audioUrl' = newUrl
      /\ setupPending' = file
      /\ UNCHANGED notAudioVars

\* The audio setup effect of App: with an audioUrl it initializes the
\* analyzer singleton for the audio element and starts an analyzeLoop; it
\* has no clean-up, so the loops of earlier runs go on.
AudioSetupEffect ==
  /\ setupPending
  /\ audioUrl # 0
  /\ initialize
  /\ setupPending' = FALSE
  /\ analyzeLoops' = analyzeLoops + 1
  /\ UNCHANGED <<tlVars, genVars, evalVars, inputVars, gridVars, dispatchVars,
                 frameVars, audioUrl, liveUrls, urlsCreated, peakUrls,
                 audioPaused, isPlaying, storeAnalysis, frameCalls,
                 beatLost, publishedAt>>

\* File regime: up to MaxFiles files are chosen or removed; the analysis
\* loop the effect starts calls analyze() and stores the snapshot.
MaxFiles == 3
FileHorizon == 300
FileNext ==
  \/ \E file \in BOOLEAN :
       /\ urlsCreated < MaxFiles
       /\ SetAudioFile(file)
  \/ AudioSetupEffect
  \/ \E in \in SnapshotInputs :
       /\ now + 100 <= FileHorizon
       /\ AnalyzeBands(100, in[1], in[2], in[3], in[4])
       /\ UNCHANGED beatLog
  \/ Hold

\* C18: through any sequence of audio file changes at most one object URL
\* is alive and at most one audio context is open at any time.
C18_SingleUrlAndContext ==
  /\ Cardinality(liveUrls) <= 1
  /\ peakUrls <= 1
  /\ ~(analyserNode /\ leakedContext)

----------------------------------------------------------------------------
\* Pattern generation: PatternInput.handleGenerate and the response of the
\* generation service.

InputInit ==
  /\ isGenerating = FALSE
  /\ error = ""
  /\ awaiting = FALSE
  /\ lastResponse = "none"

\* What the generation request can come back with: the call itself fails,
\* the message has no text block, the text has no {...}, the {...} does not
\* parse, it parses to an object without type, name or parameters, it has a
\* direction that is not a list, or it is a complete pattern.
Responses ==
  {"rejected", "noText", "noJson", "badJson", "missingFields", "badVector",
   "valid"}

\* generatePatternFromDescription(description, apiKey), by the response:
\* the Error thrown, or the GeneratedPattern returned, of which the type and
\* whether the direction can be spread are kept.
generatePatternFromDescription(response) ==
  CASE response = "rejected" ->
         [thrown |-> TRUE, message |-> "request failed"]
    [] response = "noText" ->
         [thrown |-> TRUE, message |-> "No text response from Claude"]
    [] response = "noJson" ->
         [thrown |-> TRUE, message |-> "Could not find JSON in response"]
    [] response = "badJson" ->
         [thrown |-> TRUE, message |-> "SyntaxError"]
    [] response = "missingFields" ->
         \* type: pattern.type || 'wave', every parameter defaulted
         [thrown |-> FALSE, type |-> "wave", direction |-> TRUE]
    [] response = "badVector" ->
         [thrown |-> FALSE, type |-> "pulse", direction |-> FALSE]
    [] response = "valid" ->
         [thrown |-> FALSE, type |-> "pulse", direction |-> TRUE]

\* The rest of handleGenerate once the pattern is there or the request has
\* thrown: the parameters converted, the pattern added to the registry, or
\* the message of what was thrown shown; isGenerating false in the end.
Settle(r) ==
  /\ IF r.thrown
     THEN /\ error' = r.message
          /\ UNCHANGED <<patterns, activePatternId>>
     ELSE IF ~r.direction
     THEN \* new THREE.Vector3(...direction) throws a TypeError
          /\ error' = "TypeError"
          /\ UNCHANGED <<patterns, activePatternId>>
     ELSE LET id == RegIdBase
                      + FreshNumber({q - RegIdBase : q \in PatternIds})
          IN  /\ patterns' =
                   Append(patterns, getDefaultPatternConfig(r.type, id))
              /\ activePatternId' = id
              /\ error' = ""   \* as setError('') left it
  /\ isGenerating' = FALSE

\* handleGenerate() up to its return or its await.  description is "" for
\* a blank one, "demo" for one matching a key of DEMO_PATTERNS, "other"
\* otherwise.
HandleGenerate(description, apiKey) ==
  /\ ~isGenerating
  /\ IF description = ""
     THEN /\ error' = "Please enter a pattern description"
          /\ UNCHANGED <<isGenerating, awaiting, patterns, activePatternId>>
     ELSE IF ~apiKey /\ description = "demo"
     THEN /\ Settle([thrown |-> FALSE, type |-> "blob", direction |-> TRUE])
          /\ UNCHANGED awaiting
     ELSE IF apiKey
     THEN /\ error' = ""
          /\ isGenerating' = TRUE
          /\ awaiting' = TRUE
          /\ UNCHANGED <<patterns, activePatternId>>
     ELSE /\ error' = "Enter an API key or try a demo pattern"
          /\ isGenerating' = FALSE
          /\ UNCHANGED <<awaiting, patterns, activePatternId>>
  /\ UNCHANGED <<anVars, genVars, evalVars, audioVars, gridVars, dispatchVars,
                 frameVars, loopVars, clips,
                 isTimelineMode, selectedClipId, currentTime, lastResponse>>

\* The awaited request comes back and handleGenerate runs to its end.
HandleResponse(response) ==
  /\ awaiting
  /\ Settle(generatePatternFromDescription(response))
  /\ awaiting' = FALSE
  /\ lastResponse' = response
  /\ UNCHANGED <<anVars, genVars, evalVars, audioVars, gridVars, dispatchVars,
                 frameVars, loopVars, clips,
                 isTimelineMode, selectedClipId, currentTime>>

\* removePattern(id) of the registry.
RemovePattern(id) ==
  /\ patterns' = SelectSeq(patterns, LAMBDA q : q.id # id)
  /\ activePatternId' = IF activePatternId = id THEN 0 ELSE activePatternId
  /\ UNCHANGED <<notTlVars, clips, isTimelineMode, selectedClipId,
                 currentTime>>

\* Generation regime: requests with and without a key, every kind of
\* response, patterns removed to make room.
GenerateNext ==
  \/ \E description \in {"", "demo", "other"}, apiKey \in BOOLEAN :
       /\ Len(patterns) < MaxPatterns
       /\ HandleGenerate(description, apiKey)
  \/ \E response \in Responses : HandleResponse(response)
  \/ \E id \in PatternIds : RemovePattern(id)

\* C19: a malformed response (no text, no JSON, JSON that does not parse,
\* JSON with missing fields) ends in a shown error message with the
\* registry left as it was, and after every response isGenerating is false.
C19_MalformedResponseRejected ==
  [][(awaiting /\ ~awaiting') =>
       /\ ~isGenerating'
       /\ lastResponse' \in {"noText", "noJson", "badJson", "missingFields"}
            => /\ error' # ""
               /\ UNCHANGED <<patterns, activePatternId>>]_vars

----------------------------------------------------------------------------
\* Grid generation (MiniViewer.tsx, LightGrid).  Coordinates are hundredths
\* of a scene unit, rounded down; a random() value is kept as the seed it
\* is computed from, so random() = seed / Modulus.  The point counts drawn
\* below are smaller than the 1000..50000 the configurator's slider offers
\* and go through the same code; they keep stringsX, cols and rows above 1,
\* as every count of the slider does.

Modulus == 233280

\* One step of the generator: seed = (seed * 9301 + 49297) % 233280, with
\* the product split so that no intermediate exceeds 32 bits.
seededRandom(seed) == (((seed * 93) % Modulus) * 100 + seed + 49297) % Modulus

\* const random = seededRandom(12345): the seed a generation starts from,
\* whatever seed the previous generation's closure was left with.
InitialSeedBroken(carried) == carried
InitialSeed(carried) == 12345

\* (random() - 0.5) * span and random() * span
Centred(seed, span) == ((2 * seed - Modulus) * span * 50) \div Modulus
Scaled(seed, span) == (seed * span * 100) \div Modulus

\* Math.ceil(a / b) for positive integers
CeilDiv(a, b) == (a + b - 1) \div b

\* Math.ceil(Math.sqrt(a / b)) for positive integers
CeilSqrt(a, b) == CHOOSE n \in 0..a : n * n * b >= a /\ \A m \in 0..(n - 1) : m * m * b < a

Vector3(x, y, z) == [x |-> x, y |-> y, z |-> z]

\* (i / (n - 1) - 0.5) * span
Spread(i, n, span) == ((2 * i - (n - 1)) * span * 50) \div (n - 1)

\* mode '3d', distribution 'grid': strings on a square lattice
GridStrings(dimensions, pointCount) ==
  LET stringsX == CeilSqrt(pointCount, 20)
      stringsZ == stringsX
      pointsPerString == CeilDiv(pointCount, stringsX * stringsZ)
      total == Min(pointCount, stringsX * stringsZ * pointsPerString)
  IN  [k \in 1..total |->
         LET sx == (k - 1) \div (stringsZ * pointsPerString)
             sz == ((k - 1) \div pointsPerString) % stringsZ
             py == (k - 1) % pointsPerString
         IN  Vector3(Spread(sx, stringsX, dimensions.width),
                     (py * dimensions.height * 100) \div pointsPerString + 100,
                     Spread(sz, stringsZ, dimensions.depth))]

\* The inner loop of a 'random' string: one random() per point.
RECURSIVE RandomString(_, _, _, _, _, _, _)
RandomString(py, pointsPerString, height, x, z, pointCount, st) ==
  IF py >= pointsPerString \/ Len(st.points) >= pointCount THEN st
  ELSE LET r == seededRandom(st.seed)
           y == (py * height * 100) \div pointsPerString + 50 + Scaled(r, 1) \div 2
       IN  RandomString(py + 1, pointsPerString, height, x, z, pointCount,
                        [points |-> Append(st.points, Vector3(x, y, z)),
                         seed |-> r])

\* mode '3d', distribution 'random': strings at random x and z
RECURSIVE RandomStrings(_, _, _, _, _, _)
RandomStrings(s, stringCount, pointsPerString, dimensions, pointCount, st) ==
  IF s >= stringCount \/ Len(st.points) >= pointCount THEN st
  ELSE LET r1 == seededRandom(st.seed)
           r2 == seededRandom(r1)
           x == Centred(r1, dimensions.width)
           z == Centred(r2, dimensions.depth)
       IN  RandomStrings(s + 1, stringCount, pointsPerString, dimensions,
                         pointCount,
                         RandomString(0, pointsPerString, dimensions.height,
                                      x, z, pointCount,
                                      [points |-> st.points, seed |-> r2]))

\* The points of one organic string.
RECURSIVE OrganicPoints(_, _, _, _, _, _, _)
OrganicPoints(py, pointsInString, stringHeight, x, z, pointCount, points) ==
  IF py >= pointsInString \/ Len(points) >= pointCount THEN points
  ELSE OrganicPoints(py + 1, pointsInString, stringHeight, x, z, pointCount,
                     Append(points,
                            Vector3(x, (py * stringHeight) \div pointsInString + 100, z)))

\* The strings of one cluster: four random() calls per string.
RECURSIVE OrganicStrings(_, _, _, _, _, _)
OrganicStrings(s, stringsPerCluster, cx, cz, pointCount, st) ==
  IF s >= stringsPerCluster \/ Len(st.points) >= pointCount THEN st
  ELSE LET r1 == seededRandom(st.seed)
           r2 == seededRandom(r1)
           r3 == seededRandom(r2)
           r4 == seededRandom(r3)
           x == cx + Centred(r1, 4)
           z == cz + Centred(r2, 4)
           stringHeight == 800 + Scaled(r3, 4)
           pointsInString == 10 + (r4 * 8) \div Modulus
       IN  OrganicStrings(s + 1, stringsPerCluster, cx, cz, pointCount,
                          [points |-> OrganicPoints(0, pointsInString, stringHeight,
                                                    x, z, pointCount, st.points),
                           seed |-> r4])

\* mode '3d', distribution 'organic': eight clusters, each with a random
\* centre drawn whether or not the point list is already full
RECURSIVE OrganicClusters(_, _, _, _, _)
OrganicClusters(c, stringsPerCluster, dimensions, pointCount, st) ==
  IF c >= 8 THEN st
  ELSE LET r1 == seededRandom(st.seed)
           r2 == seededRandom(r1)
           cx == (Centred(r1, dimensions.width) * 7) \div 10
           cz == (Centred(r2, dimensions.depth) * 7) \div 10
       IN  OrganicClusters(c + 1, stringsPerCluster, dimensions, pointCount,
                           OrganicStrings(0, stringsPerCluster, cx, cz, pointCount,
                                          [points |-> st.points, seed |-> r2]))

\* mode '2d': a flat lattice of cols x rows
FlatGrid(dimensions, pointCount) ==
  LET cols == CHOOSE n \in 0..(pointCount * dimensions.width) :
                /\ n * n * dimensions.height >= pointCount * dimensions.width
                /\ \A m \in 0..(n - 1) :
                     m * m * dimensions.height < pointCount * dimensions.width
      rows == CeilDiv(pointCount, cols)
      total == Min(pointCount, rows * cols)
  IN  [k \in 1..total |->
         LET y == (k - 1) \div cols
             x == (k - 1) % cols
         IN  Vector3(Spread(x, cols, dimensions.width),
                     (y * dimensions.height * 100) \div (rows - 1) + 100,
                     0)]

\* The body of the positions useMemo: the point list and the seed the
\* generator's closure ends with.
GeneratePositions(config, carried) ==
  LET seed == InitialSeed(carried)
      dimensions == config.dimensions
      pointCount == config.pointCount
      start == [points |-> <<>>, seed |-> seed]
  IN  IF config.mode = "3d"
      THEN IF config.distribution = "grid"
           THEN [points |-> GridStrings(dimensions, pointCount), seed |-> seed]
           ELSE IF config.distribution = "random"
           THEN LET stringCount == CeilDiv(pointCount, 15)
                IN  RandomStrings(0, stringCount, CeilDiv(pointCount, stringCount),
                                  dimensions, pointCount, start)
           ELSE OrganicClusters(0, CeilDiv(pointCount, 8 * 12), dimensions,
                                pointCount, start)
      ELSE [points |-> FlatGrid(dimensions, pointCount), seed |-> seed]

DEFAULT_GRID_CONFIG ==
  [mode |-> "3d",
   dimensions |-> [width |-> 20, height |-> 10, depth |-> 20],
   pointCount |-> 30,
   distribution |-> "random"]

GridInit ==
  LET first == GeneratePositions(DEFAULT_GRID_CONFIG, 12345)
  IN  /\ gridConfig = DEFAULT_GRID_CONFIG
      /\ positions = first.points
      /\ randomSeed = first.seed
      /\ generations = <<[config |-> DEFAULT_GRID_CONFIG, positions |-> first.points]>>

MaxGenerations == 4

\* What the configurator passes to setGridConfig: one field at a time.
GridUpdates ==
  [mode : {"3d", "2d"}]
    \cup [pointCount : {30, 110}]
    \cup [distribution : {"grid", "random", "organic"}]
    \cup [dimensions : {[width |-> 20, height |-> 10, depth |-> 20],
                        [width |-> 12, height |-> 30, depth |-> 5]}]

\* setGridConfig(config): the merged object is a new one even when no field
\* changes, so LightGrid's useMemo runs again and replaces the point list.
SetGridConfig(config) ==
  LET merged == [f \in DOMAIN gridConfig |->
                   IF f \in DOMAIN config THEN config[f] ELSE gridConfig[f]]
      result == GeneratePositions(merged, randomSeed)
  IN  /\ Len(generations) < MaxGenerations
      /\ gridConfig' = merged
      /\ positions' = result.points
      /\ randomSeed' = result.seed
      /\ generations' = Append(generations,
                               [config |-> merged, positions |-> result.points])
      /\ UNCHANGED notGridVars

GridNext == \E config \in GridUpdates : SetGridConfig(config)

\* C20: grid generation is deterministic.  Whenever the same GridConfig has
\* been generated more than once, with any other configs generated in
\* between, every one of those generations produced the same ordered list
\* of positions.
C20_DeterministicGrid ==
  \A i, j \in DOMAIN generations :
    generations[i].config = generations[j].config
      => generations[i].positions = generations[j].positions

\* A config that draws random numbers was generated, another config was
\* generated after it, and then the first one again.
C20_Witness ==
  \E i, j, k \in DOMAIN generations :
    /\ i < j /\ j < k
    /\ generations[i].config = generations[k].config
    /\ generations[j].config # generations[i].config
    /\ generations[i].config.mode = "3d"
    /\ generations[i].config.distribution \in {"random", "organic"}
    /\ generations[j].config.distribution \in {"random", "organic"}
    /\ Len(generations[k].positions) = generations[k].config.pointCount

----------------------------------------------------------------------------
\* The dispatch of evaluatePatterns on the pattern's type.

DispatchInit ==
  /\ lastTypes = <<>>
  /\ dispatched = <<>>
  /\ outcome = "ok"

\* patternFunctions[type] || wavePattern
getPatternFunction(type) ==
  IF patternFunctions(type) # "undefined" THEN patternFunctions(type)
  ELSE "wavePattern"

\* The values of the table: the pattern functions.
PatternFunctions == {patternFunctions(type) : type \in PatternTypes}

\* What fn(position, time, pattern, audioToUse) does: a pattern function
\* returns an { intensity, colorShift }; Object returns its first argument,
\* the position, and Object.prototype.toString a string, neither of which
\* has an intensity; hasOwnProperty throws on its undefined receiver, and
\* Object.prototype is not callable.
CallKind(fn) ==
  CASE fn \in PatternFunctions -> "result"
    [] fn \in {"Object", "Object.prototype.toString"} -> "noIntensity"
    [] OTHER -> "throws"

\* The index of the first pattern of the list whose call throws, 0 for none.
FirstThrow(fns) ==
  IF \E i \in DOMAIN fns : CallKind(fns[i]) = "throws"
  THEN CHOOSE i \in DOMAIN fns :
         /\ CallKind(fns[i]) = "throws"
         /\ \A j \in 1..(i - 1) : CallKind(fns[j]) # "throws"
  ELSE 0

\* evaluatePatterns on patterns of the given types, `results` being what
\* the pattern function of each would return.  An exception leaves the
\* loop and resultCache as it was; an undefined intensity makes every
\* accumulator NaN, so that resultCache.intensity is NaN (written 0 here
\* under the outcome "NaN") and its colorShift 0, NaN > 0 being false.
EvaluateTyped(types, results) ==
  LET fns == [i \in DOMAIN types |-> getPatternFunction(types[i])]
      thrown == FirstThrow(fns)
  IN  /\ lastTypes' = types
      /\ IF thrown # 0
         THEN /\ dispatched' = SubSeq(fns, 1, thrown)
              /\ outcome' = "TypeError"
              /\ UNCHANGED <<generated, resultCache>>
         ELSE /\ dispatched' = fns
              /\ IF \E i \in DOMAIN fns : CallKind(fns[i]) = "noIntensity"
                 THEN /\ outcome' = "NaN"
                      /\ generated' = <<>>
                      /\ resultCache' = [intensity |-> 0, colorShift |-> 0]
                 ELSE /\ outcome' = "ok"
                      /\ generated' = results
                      /\ resultCache' = evaluatePatterns(results)
      /\ UNCHANGED <<tlVars, anVars, genVars, audioVars, inputVars, gridVars,
                     frameVars, loopVars, linearResult>>

\* Lists of up to MaxTyped patterns: known stateless types, a type no
\* object has, and types Object.prototype has.
MaxTyped == 2
TypeInputs == {"wave", "rain", "sparkle", "constructor", "__proto__"}
TypedResults == {[intensity |-> 400, colorShift |-> 0],
                 [intensity |-> 1000, colorShift |-> 99999]}
DispatchNext ==
  \E n \in 1..MaxTyped :
    \E types \in [1..n -> TypeInputs], results \in [1..n -> TypedResults] :
      EvaluateTyped(types, results)

\* C21: evaluatePatterns on a list holding a pattern of an unknown type
\* raises no error and yields a normal result, every pattern of the list
\* having been evaluated and the unknown ones by the wave generator.
C21_UnknownTypeFallsBack ==
  (\E i \in DOMAIN lastTypes : lastTypes[i] \notin PatternTypes)
    => /\ outcome = "ok"
       /\ Len(dispatched) = Len(lastTypes)
       /\ \A i \in DOMAIN lastTypes :
            lastTypes[i] \notin PatternTypes => dispatched[i] = "wavePattern"

----------------------------------------------------------------------------
\* The conditions of a detected beat.

\* C22: a call of analyze() returns beat = true only if at least 150 ms
\* have passed since the last detected beat, the combination of bass and
\* amplitude exceeds the threshold, it is at least 10% above the
\* combination of the bands of the call just before (in the cooldown or
\* not), and bass exceeds 0.4.
C22_BeatConditions ==
  [][(now' # now /\ lastAnalysis'.beat) =>
       /\ now' - lastBeatTime >= BeatHoldTime
       /\ Combined(lastAnalysis'.bass, lastAnalysis'.amplitude) > BeatThreshold
       /\ 10 * Combined(lastAnalysis'.bass, lastAnalysis'.amplitude)
            >= 11 * Combined(lastAnalysis.bass, lastAnalysis.amplitude)
       /\ lastAnalysis'.bass > 4]_vars

----------------------------------------------------------------------------
\* The idle window of the auto-trigger.

\* C23: a call with amplitude below 0.1 and no beat, made within the idle
\* window of a call whose amplitude was 0.1 or more, spawns nothing.
C23_AutoAfterIdleWindow ==
  [][\A g \in Generators :
       (/\ g \in call.active /\ g \in call.reactive
        /\ g \in call'.active /\ g \in call'.reactive
        /\ call.amplitude >= 1
        /\ call'.amplitude < 1 /\ ~call'.beat
        /\ renderTime' - renderTime \in 1..AutoGap(g))
         => spawned'[g] = spawned[g]]_vars

----------------------------------------------------------------------------
\* The colour shift evaluatePatterns returns.

\* The sum of colorShift * intensity over a list of results.
RECURSIVE SumWeighted(_)
SumWeighted(results) ==
  IF results = <<>> THEN 0
  ELSE Head(results).colorShift * Head(results).intensity
         + SumWeighted(Tail(results))

\* C24: the colorShift evaluatePatterns returns is the average of the
\* pattern functions' colorShifts weighted by their intensities, so it lies
\* between the smallest and the largest colorShift among the results of
\* non-zero intensity; with no results, or every intensity 0, it is 0.
C24_WeightedColorShift ==
  LET contributors == {i \in DOMAIN generated : generated[i].intensity > 0}
  IN  IF contributors = {} THEN resultCache.colorShift = 0
      ELSE /\ resultCache.colorShift =
                SumWeighted(generated) \div SumIntensity(generated)
           /\ \E i \in contributors :
                generated[i].colorShift <= resultCache.colorShift
           /\ \E i \in contributors :
                resultCache.colorShift <= generated[i].colorShift

\* A dim and a bright pattern of different colour shifts and a dark one have
\* been evaluated: the result is nearer the bright one's shift.
C24_Witness ==
  /\ Len(generated) = 3
  /\ \E i, j, k \in 1..3 :
       /\ generated[i].intensity = 400 /\ generated[i].colorShift = 0
       /\ generated[j].intensity = 1000 /\ generated[j].colorShift = 99999
       /\ generated[k].intensity = 0
  /\ resultCache.colorShift \in 50001..99998

----------------------------------------------------------------------------
\* The smoothing buffers of LightGrid and its frame callback.  Smoothed
\* intensities are in 1e-6 (1000000 standing for 1.0), smoothed colour
\* shifts in 1e-5.  React runs the buffer effect after the commit that
\* produced new positions and before the next render of the component; the
\* frame callback runs on every animation frame with the count and
\* positions of the latest commit.  The colours the callback writes to the
\* meshes are computed from the buffers and are not kept.

FrameInit ==
  /\ prevIntensities = <<>>
  /\ prevColors = <<>>
  /\ allocatedFor = 0
  /\ frameCount = 0
  /\ lastFrame = [count |-> 0, length |-> 0, generation |-> 0,
                  allocatedFor |-> 0, targets |-> <<0, 0>>]

\* The effect on [positions, count, dummy]: new Float32Array(count), twice.
BufferInitEffect ==
  /\ allocatedFor # Len(generations)
  /\ prevIntensities' = [i \in 1..Len(positions) |-> 0]
  /\ prevColors' = [i \in 1..Len(positions) |-> 0]
  /\ allocatedFor' = Len(generations)
  /\ UNCHANGED <<notFrameVars, frameCount, lastFrame>>

\* Division rounding towards zero.
TruncDiv(a, b) == IF a >= 0 THEN a \div b ELSE -((-a) \div b)

\* targetIntensity > prevI ? lerpUp : lerpDown, in hundredths
lerpFactorBroken(targetIntensity, prevI) ==
  IF targetIntensity > prevI THEN 120 ELSE 4
lerpFactor(targetIntensity, prevI) ==
  IF targetIntensity > prevI THEN 12 ELSE 4

\* prevI + (targetIntensity - prevI) * lerpFactor
smoothIntensity(prevI, targetIntensity) ==
  prevI + TruncDiv((targetIntensity - prevI)
                     * lerpFactor(targetIntensity, prevI), 100)

\* prevC + (targetColorShift - prevC) * 0.08
smoothColor(prevC, targetColorShift) ==
  prevC + TruncDiv((targetColorShift - prevC) * 8, 100)

\* hasAudioLoaded ? 0.4 + amplitudeNormalized * 0.6 : 1.0, in 1e-3, for a
\* store snapshot with amplitude in tenths
globalIntensity(analysis) ==
  IF analysis.timestamp > 0 THEN 400 + Min(10, analysis.amplitude) * 60
  ELSE 1000

\* result.intensity * globalIntensity, or 0 without enabled patterns
targetIntensity(hasPatterns, result, analysis) ==
  IF hasPatterns THEN result.intensity * globalIntensity(analysis) ELSE 0

\* The frame callback.  results[1] is what evaluatePatterns returns at the
\* even points of the list and results[2] what it returns at the odd ones.
\* The loop runs over the count of the latest commit; a Float32Array
\* ignores a write past its end.
UseFrame(hasPatterns, results, analysis) ==
  IF allocatedFor = 0 THEN UNCHANGED vars
  ELSE /\ frameCount' = frameCount + 1
       /\ IF frameCount' % 2 # 0
          THEN UNCHANGED <<prevIntensities, prevColors, lastFrame>>
          ELSE LET count == Len(positions)
                   of(i) == results[(i % 2) + 1]
                   targetI(i) == targetIntensity(hasPatterns, of(i), analysis)
                   targetC(i) == IF hasPatterns THEN of(i).colorShift ELSE 0
               IN  /\ prevIntensities' =
                        [i \in DOMAIN prevIntensities |->
                           IF i <= count
                           THEN smoothIntensity(prevIntensities[i], targetI(i))
                           ELSE prevIntensities[i]]
                   /\ prevColors' =
                        [i \in DOMAIN prevColors |->
                           IF i <= count
                           THEN smoothColor(prevColors[i], targetC(i))
                           ELSE prevColors[i]]
                   /\ lastFrame' = [count |-> count,
                                    length |-> Len(prevIntensities),
                                    generation |-> Len(generations),
                                    allocatedFor |-> allocatedFor,
                                    targets |-> <<targetI(2), targetI(1)>>]
       /\ UNCHANGED <<notFrameVars, allocatedFor>>

\* Frames with and without enabled patterns and loaded audio, grids of 30
\* and 110 points.
MaxFrames == 4
FrameResults ==
  {<<[intensity |-> 1000, colorShift |-> 99999],
     [intensity |-> 0, colorShift |-> 0]>>,
   <<[intensity |-> 500, colorShift |-> 40000],
     [intensity |-> 1000, colorShift |-> 99999]>>}
FrameAnalyses ==
  {[timestamp |-> 0, amplitude |-> 0], [timestamp |-> 1, amplitude |-> 5]}
FrameNext ==
  \/ \E config \in [pointCount : {30, 110}] :
       /\ allocatedFor = Len(generations)
       /\ SetGridConfig(config)
  \/ BufferInitEffect
  \/ \E hasPatterns \in BOOLEAN, results \in FrameResults,
        analysis \in FrameAnalyses :
       /\ frameCount < MaxFrames
       /\ UseFrame(hasPatterns, results, analysis)

\* C25: every frame that is processed runs on buffers allocated for the
\* position list it loops over, their length being the point count.
C25_BuffersMatchPositions ==
  lastFrame.count > 0 =>
    /\ lastFrame.length = lastFrame.count
    /\ lastFrame.allocatedFor = lastFrame.generation

\* C26: on a processed frame the smoothed intensity of every point moves
\* from its previous value towards the target by 0.12 of the difference
\* when the target is higher and by 0.04 of it otherwise; it stays between
\* the previous value and the target and within [0,1], and it gets nearer
\* to the target whenever it is not already within the resolution of it.
C26_AsymmetricSmoothing ==
  [][(frameCount' # frameCount /\ frameCount' % 2 = 0) =>
       \A i \in 1..Min(Len(positions), Len(prevIntensities)) :
         LET prev == prevIntensities[i]
             next == prevIntensities'[i]
             target == lastFrame'.targets[(i % 2) + 1]
             rate == IF target > prev THEN 12 ELSE 4
             away == IF target > next THEN target - next ELSE next - target
             before == IF target > prev THEN target - prev ELSE prev - target
         IN  /\ 100 * (next - prev) - (target - prev) * rate \in -99..99
             /\ next >= Min(prev, target) /\ next <= Max(prev, target)
             /\ next \in 0..1000000
             /\ away <= before
             /\ before >= 25 => away < before]_vars

\* The latest frame raised one half of the points and let the other half
\* fall, both from values strictly between 0 and 1.
C26_Witness ==
  /\ lastFrame.count > 0
  /\ frameCount = 4
  /\ \E i, j \in DOMAIN prevIntensities :
       /\ prevIntensities[i] \in 1..lastFrame.targets[(i % 2) + 1] - 1
       /\ prevIntensities[j] > lastFrame.targets[(j % 2) + 1]
       /\ prevIntensities[j] < 1000000

----------------------------------------------------------------------------
\* The state of a generator after one frame.

\* C27: after a frame that evaluated tetris at any number of points, the
\* blocks and the stack height are what a single call with that frame's
\* time and audio leaves.
C27_OncePerFrame ==
  [][(call'.active = {"tetris"} /\ renderTime' # renderTime) =>
       LET once == tetrisPattern(
                     [blocks |-> tetrisBlocks, lastBeat |-> lastTetrisBeat,
                      lastAuto |-> lastTetrisAuto,
                      stack |-> tetrisStackHeight,
                      spawned |-> spawned["tetris"]],
                     renderTime',
                     [amplitude |-> call'.amplitude, bass |-> call'.bass,
                      beat |-> call'.beat])
       IN  /\ tetrisBlocks' = once.blocks
           /\ tetrisStackHeight' = once.stack]_vars

----------------------------------------------------------------------------
\* Two patterns of one stateful type in the same frame.

\* What determines the result of a non-reactive pattern that evaluatePatterns
\* calls right after an audio-reactive pattern of the same type: both calls
\* go to the one pattern function of that type, whose entity list and
\* timers are module variables, so the second call finds what the first
\* one left.  Called with the neutral snapshot at the same time it pushes
\* nothing more onto the pulse or particle list and expires nothing the
\* first call has not; for tetris the second call is applied as well, since
\* it moves the blocks again.
TwinResult(type, dt, audio) ==
  LET t == renderTime + dt
  IN  CASE type = "pulse" ->
             [fn |-> patternFunctions(type), time |-> t,
              entities |-> pulsePattern(t, DefaultDecay, audio).pulseTimes]
        [] type = "firework" ->
             [fn |-> patternFunctions(type), time |-> t,
              entities |->
                fireworkPattern(t, DefaultDecay, audio, 0, TRUE).particles]
        [] type = "tetris" ->
             [fn |-> patternFunctions(type), time |-> t,
              entities |->
                tetrisPattern(
                  tetrisPattern(
                    [blocks |-> tetrisBlocks, lastBeat |-> lastTetrisBeat,
                     lastAuto |-> lastTetrisAuto,
                     stack |-> tetrisStackHeight,
                     spawned |-> spawned["tetris"]], t, audio),
                  t, neutralAudio).blocks]

\* C28: with an audio-reactive and a non-reactive pattern of the same
\* stateful type active in one frame, the result of the non-reactive one is
\* the same whichever live snapshot the frame is given.
C28_TwinIsolation ==
  \A type \in Generators, dt \in {400, 500} :
    \A a1 \in AudioSnapshots, a2 \in AudioSnapshots :
      TwinResult(type, dt, a1) = TwinResult(type, dt, a2)

----------------------------------------------------------------------------
\* The analysis loops App starts and the snapshot they store.  The
\* store's own detectBeat, which App calls after setAnalysis, only rewrites
\* the store's lastBeatTime, bpmHistory and analysis.bpm and is left out.

\* analysis: DEFAULT_ANALYSIS
LoopInit ==
  /\ analyzeLoops = 0
  /\ audioPaused = TRUE
  /\ isPlaying = FALSE
  /\ storeAnalysis = getEmptyAnalysis
  /\ frameCalls = 0
  /\ beatLost = FALSE
  /\ publishedAt = 0

\* togglePlayback of TimelineEditor: play() or pause() on its audio element,
\* by isPlaying; onplay and onpause, installed by the effect, set isPlaying
\* when the element's paused flag changes.
togglePlayback ==
  /\ audioUrl # 0
  /\ ~setupPending
  /\ audioPaused' = isPlaying
  /\ isPlaying' = IF audioPaused' # audioPaused THEN ~audioPaused'
                  ELSE isPlaying
  /\ UNCHANGED <<notLoopVars, analyzeLoops, storeAnalysis, frameCalls,
                 beatLost, publishedAt>>

\* togglePlayPause of AudioUploader: play() or pause() on its own audio
\* element, which no loop reads, and setIsPlaying(!isPlaying).
togglePlayPause ==
  /\ audioUrl # 0
  /\ ~setupPending
  /\ isPlaying' = ~isPlaying
  /\ UNCHANGED <<notLoopVars, analyzeLoops, audioPaused, storeAnalysis,
                 frameCalls, beatLost, publishedAt>>

\* The analyze() calls of one animation frame: one by every analyzeLoop
\* that the effect on audioUrl ever started, none of which is cancelled,
\* while TimelineEditor's element plays, and one by AudioUploader's
\* updateAnalysis while isPlaying is set.
FrameCalls ==
  (IF audioPaused THEN 0 ELSE analyzeLoops) + (IF isPlaying THEN 1 ELSE 0)

\* One animation frame, dt ms after the previous one.  Each call is
\* followed by setAnalysis().  The calls of one frame read the same bands
\* at the same time; lastAnalysis keeps what the first of them returned and
\* the store what the last one did.
AnalyzeLoops(dt, bass, amplitude) ==
  /\ IF FrameCalls = 0
     THEN /\ frameCalls' = 0
          /\ beatLost' = FALSE
          /\ UNCHANGED <<anVars, storeAnalysis, publishedAt>>
     ELSE LET first == detectBeat(now + dt, bass, amplitude)
              again == detectBeatOn(first, now + dt, bass, amplitude)
          IN  /\ analyze(dt, bass, 0, 0, amplitude)
              /\ UNCHANGED beatLog
              /\ frameCalls' = FrameCalls
              /\ storeAnalysis' =
                   IF FrameCalls = 1 \/ ~analyserNode THEN lastAnalysis'
                   ELSE [lastAnalysis' EXCEPT !.beat = again.beat]
              /\ beatLost' = (lastAnalysis'.beat /\ ~storeAnalysis'.beat)
              /\ publishedAt' = renderTime
  /\ UNCHANGED <<tlVars, genVars, evalVars, audioVars, inputVars, gridVars,
                 dispatchVars, frameVars, analyzeLoops, audioPaused,
                 isPlaying>>

\* Source regime: up to MaxFiles files are loaded, each while the audio is
\* paused, and played; animation frames are 200 ms apart.
LoopHorizon == 600
LoopNext ==
  \/ \E file \in BOOLEAN :
       /\ urlsCreated < MaxFiles
       /\ audioPaused /\ ~isPlaying
       /\ SetAudioFile(file)
  \/ AudioSetupEffect
  \/ togglePlayback
  \/ togglePlayPause
  \/ \E in \in {Quiet, Loud} :
       /\ now + 200 <= LoopHorizon
       /\ AnalyzeLoops(200, in[1], in[2])

\* C29: at most one analysis loop runs, analyze() is called at most once in
\* an animation frame, and no frame stores a snapshot with beat = true and
\* then overwrites it with one with beat = false.
C29_SingleAnalysisLoop ==
  /\ analyzeLoops <= 1
  /\ frameCalls <= 1
  /\ ~beatLost

\* The render tick of LightGrid on the store's snapshot, dt ms after the
\* previous one, for one point and one pattern of each stateful type.
RenderTick(dt) ==
  LET audioData == IF storeAnalysis.timestamp > 0 THEN storeAnalysis
                   ELSE getEmptyAnalysis
  IN  EvaluatePatterns(Generators, Generators, dt, DefaultDecay,
                       [amplitude |-> audioData.amplitude,
                        bass |-> audioData.bass, beat |-> audioData.beat],
                       1, 0, TRUE)

\* Pause regime: one file is loaded and played, then paused, with render
\* ticks 400 ms apart throughout.
PauseHorizon == 1600
PauseNext ==
  \/ /\ urlsCreated < 1
     /\ audioPaused /\ ~isPlaying
     /\ SetAudioFile(TRUE)
  \/ AudioSetupEffect
  \/ togglePlayback
  \/ togglePlayPause
  \/ \E in \in {Quiet, Loud} :
       /\ now + 200 <= LoopHorizon
       /\ AnalyzeLoops(200, in[1], in[2])
  \/ /\ renderTime + 400 <= PauseHorizon
     /\ RenderTick(400)

\* C30: a render tick made while the audio is paused, after an earlier tick
\* has already read the latest stored snapshot, triggers no spawn on a
\* beat in pulse, firework or tetris.
C30_NoStaleBeat ==
  [][(/\ renderTime' # renderTime
      /\ audioPaused /\ ~isPlaying
      /\ renderTime > publishedAt) =>
       /\ pulseLastBeatTime' = pulseLastBeatTime
       /\ fireworkLastBeatTime' = fireworkLastBeatTime
       /\ lastTetrisBeat' = lastTetrisBeat]_vars

----------------------------------------------------------------------------
\* Specifications.  Each drives one component; the others stay as built.

Init ==
  /\ TLInit /\ AnInit /\ GenInit /\ EvalInit /\ AudioInit /\ InputInit
  /\ GridInit /\ DispatchInit /\ FrameInit /\ LoopInit

SpecTimeline == Init /\ [][TLNext]_vars
SpecClipOps == Init /\ [][ClipOpsNext]_vars
SpecBeat == Init /\ [][BeatNext]_vars
SpecBpm == Init /\ [][BpmNext]_vars
SpecBpmExample == Init /\ [][ExampleNext]_vars
SpecQuiet == Init /\ [][QuietNext]_vars
SpecStorm == Init /\ [][StormNext]_vars
SpecNeutral == Init /\ [][NeutralNext]_vars
SpecIdle == Init /\ [][IdleNext]_vars
SpecCompose == Init /\ [][ComposeNext]_vars
SpecWave == Init /\ [][WaveNext]_vars
SpecSnapshot == Init /\ [][SnapshotNext]_vars
SpecFiles == Init /\ [][FileNext]_vars
SpecGenerate == Init /\ [][GenerateNext]_vars
SpecGrid == Init /\ [][GridNext]_vars
SpecDispatch == Init /\ [][DispatchNext]_vars
SpecFrame == Init /\ [][FrameNext]_vars
SpecLoops == Init /\ [][LoopNext]_vars
SpecPause == Init /\ [][PauseNext]_vars

====
